---- MODULE Spec2Model ----
(***************************************************************************)
(* Model of the hideaway repository: the configuration-profile builders,   *)
(* the profile validator (profile_validator.py) and the state the          *)
(* controllers keep around them.                                           *)
(*                                                                         *)
(* Property-list values are tagged records [kind, v]:                      *)
(*   str   v is a sequence of text atoms (the string is their              *)
(*         concatenation; a prefix such as "com.apple." is its own atom,   *)
(*         text that the code lower-cases or slices is one atom per        *)
(*         character, a uuid4() text is one atom)                          *)
(*   int   v is an integer          bool  v is a BOOLEAN                   *)
(*   list  v is a sequence of values                                       *)
(*   dict  v is a function from key strings to values                      *)
(*   none  Python's None, as returned by dict.get for an absent key        *)
(***************************************************************************)
EXTENDS Integers, Sequences, FiniteSets, TLC

VARIABLES
    profile,        \* the document last built or being hand-edited
    report,         \* outcome of the last validate_profile(profile) call
    origin,         \* which operation produced `profile` ("hand" for edits)
    edits,          \* number of hand edits applied to `profile`
    saved,          \* the file save_profile wrote from `profile`, if any
    uuid_next,      \* index of the next token uuid.uuid4() hands out
    issued,         \* PayloadUUID values of the documents built before
    inputs,         \* arguments of the builder call that made `profile`
    variant,        \* which program of the repository this process runs
    app_vars,       \* self.app_vars: bundle id -> checkbox value
    device_id,      \* self.device_id
    is_blocking,    \* self.is_blocking
    control_button, \* text of self.control_button
    self_available_apps,  \* self.available_apps (self.app_bundles in the
                          \* generator classes): app name -> bundle id
    sending,        \* the send_profile_to_device call of the last GUI
                    \* handler, NoSend when it made none
    response,       \* what the push request of the last GUI handler
                    \* answered, NoResponse when it made none
    lookup,         \* selected_bundles and app_names of the reverse lookup
    scan,           \* one run of validate_all_profiles over a directory
    focus,          \* one focus mode going through the name conversion
    setup,          \* one run of a setup script
    path_check      \* one validate_profile(profile_path) call on a path

doc_vars == <<profile, report, origin, edits, saved>>

gen_vars == <<uuid_next, issued, inputs>>

gui_vars ==
    <<variant, app_vars, device_id, is_blocking, control_button,
      self_available_apps, sending, response>>

run_vars == <<lookup, scan, focus, setup, path_check>>

vars == <<doc_vars, gen_vars, gui_vars, run_vars>>

----------------------------------------------------------------------------
(* Python values *)

PyStr(atoms) == [kind |-> "str", v |-> atoms]

S(text) == PyStr(<<text>>)

PyInt(n) == [kind |-> "int", v |-> n]

PyBool(b) == [kind |-> "bool", v |-> b]

PyList(items) == [kind |-> "list", v |-> items]

PyDict(fields) == [kind |-> "dict", v |-> fields]

PyNone == [kind |-> "none", v |-> "None"]

EmptyStr == PyStr(<<>>)

\* int(x) for the two numeric kinds (bool is a subclass of int)
Num(x) == IF x.kind = "bool" THEN (IF x.v THEN 1 ELSE 0) ELSE x.v

\* Python ==
PyEq(a, b) ==
    IF a.kind \in {"int", "bool"} /\ b.kind \in {"int", "bool"}
    THEN Num(a) = Num(b)
    ELSE a.kind = b.kind /\ a.v = b.v

\* bool(x)
Truthy(x) ==
    CASE x.kind = "str"  -> x.v # <<>>
      [] x.kind = "int"  -> x.v # 0
      [] x.kind = "bool" -> x.v
      [] x.kind = "list" -> x.v # <<>>
      [] x.kind = "dict" -> DOMAIN x.v # {}
      [] OTHER           -> FALSE

\* len(x) raises TypeError unless x is sized
HasLen(x) == x.kind \in {"str", "list", "dict"}

\* x[:3] raises TypeError on a dict (and on anything unsized)
Sliceable(x) == x.kind \in {"str", "list"}

\* `key in d` for a dict d
Has(d, key) == key \in DOMAIN d.v

\* d.get(key, default)
Get(d, key, default) == IF Has(d, key) THEN d.v[key] ELSE default

\* str.startswith
StartsWith(s, prefix) ==
    /\ Len(s.v) >= Len(prefix)
    /\ SubSeq(s.v, 1, Len(prefix)) = prefix

\* a copy of dict d with one key set / removed
DictSet(d, key, val) ==
    PyDict([k \in DOMAIN d.v \cup {key} |-> IF k = key THEN val ELSE d.v[k]])

DictDel(d, key) == PyDict([k \in DOMAIN d.v \ {key} |-> d.v[k]])

----------------------------------------------------------------------------
(* profile_validator.py *)

required_fields ==
    {"PayloadContent", "PayloadDescription", "PayloadDisplayName",
     "PayloadIdentifier", "PayloadType", "PayloadUUID", "PayloadVersion"}

payload_required_with_description ==
    {"PayloadDisplayName", "PayloadIdentifier", "PayloadType", "PayloadUUID",
     "PayloadVersion", "PayloadDescription"}

payload_required ==
    {"PayloadDisplayName", "PayloadIdentifier", "PayloadType",
     "PayloadUUID", "PayloadVersion"}

Configuration == S("Configuration")

applicationaccess == PyStr(<<"com.apple.", "applicationaccess">>)

\* what validate_profile hands back: result is "True", "False" or "raise"
\* (an exception escaping to the caller); issues_found is the counter at
\* that moment; payloads_checked counts loop iterations entered; warnings and
\* summaries count the non-fatal lines printed.
Report(result, issues, checked, warnings, summaries) ==
    [result |-> result, issues_found |-> issues, payloads_checked |-> checked,
     warnings |-> warnings, summaries |-> summaries]

NoReport == Report("none", 0, 0, 0, 0)

\* lines 46-51: one issue per absent root field
root_missing(p) == Cardinality({f \in required_fields : ~Has(p, f)})

\* lines 54-56
root_type_issue(p) ==
    IF ~PyEq(Get(p, "PayloadType", PyNone), Configuration) THEN 1 ELSE 0

\* lines 61-63
root_version_issue(p) ==
    IF ~PyEq(Get(p, "PayloadVersion", PyNone), PyInt(1)) THEN 1 ELSE 0

\* lines 98-103: one issue per absent payload field
payload_missing(payload) ==
    Cardinality({f \in payload_required : ~Has(payload, f)})

\* lines 106-111: payload_type.startswith is reached for every truthy
\* payload_type and exists only on str
payload_type_raises(payload) ==
    LET payload_type == Get(payload, "PayloadType", EmptyStr)
    IN  Truthy(payload_type) /\ payload_type.kind # "str"

payload_type_warns(payload) ==
    LET payload_type == Get(payload, "PayloadType", EmptyStr)
    IN  /\ Truthy(payload_type)
        /\ payload_type.kind = "str"
        /\ ~StartsWith(payload_type, <<"com.apple.">>)

\* lines 114-122: the app-restriction summary
is_app_restriction(payload) ==
    PyEq(Get(payload, "PayloadType", EmptyStr), applicationaccess)

payload_summary(payload) ==
    is_app_restriction(payload) /\ Has(payload, "blacklistedAppBundleIDs")

payload_summary_raises(payload) ==
    /\ payload_summary(payload)
    /\ LET bundle_ids == payload.v["blacklistedAppBundleIDs"]
       IN  ~HasLen(bundle_ids) \/ ~Sliceable(bundle_ids)

\* lines 81-122: the loop over PayloadContent, from index i on, with the
\* report accumulated so far
RECURSIVE validate_payloads(_, _, _)
validate_payloads(payload_content, i, acc) ==
    IF i > Len(payload_content) THEN acc
    ELSE
      LET payload == payload_content[i]
          seen == [acc EXCEPT !.payloads_checked = @ + 1]
      IN  IF payload.kind # "dict"
          THEN validate_payloads(payload_content, i + 1,
                                 [seen EXCEPT !.issues_found = @ + 1])
          ELSE
            LET counted == [seen EXCEPT !.issues_found =
                                            @ + payload_missing(payload)]
            IN  IF payload_type_raises(payload)
                THEN [counted EXCEPT !.result = "raise"]
                ELSE
                  LET warned == [counted EXCEPT !.warnings =
                        @ + (IF payload_type_warns(payload) THEN 1 ELSE 0)]
                  IN  IF payload_summary_raises(payload)
                      THEN [warned EXCEPT !.result = "raise"]
                      ELSE validate_payloads(payload_content, i + 1,
                             [warned EXCEPT !.summaries =
                                @ + (IF payload_summary(payload)
                                     THEN 1 ELSE 0)])

\* lines 32-131, for a parsed document (a dict)
validate_profile(p) ==
    LET issues_root == root_missing(p) + root_type_issue(p)
                         + root_version_issue(p)
        payload_content == Get(p, "PayloadContent", PyList(<<>>))
    IN  IF ~HasLen(payload_content)
        THEN \* line 70: len() raises TypeError
             Report("raise", issues_root, 0, 0, 0)
        ELSE IF payload_content.kind # "list"
        THEN \* lines 72-75
             Report(IF issues_root + 1 = 0 THEN "True" ELSE "False",
                    issues_root + 1, 0, 0, 0)
        ELSE
          LET start == Report("running", issues_root, 0,
                              IF Len(payload_content.v) = 0 THEN 1 ELSE 0, 0)
              done == validate_payloads(payload_content.v, 1, start)
          IN  IF done.result = "raise" THEN done
              ELSE [done EXCEPT !.result =
                       IF done.issues_found = 0 THEN "True" ELSE "False"]

----------------------------------------------------------------------------
(* Documents *)

\* PayloadContent of a document, or the empty list when it is not a list
payloads_of(p) ==
    LET payload_content == Get(p, "PayloadContent", PyList(<<>>))
    IN  IF payload_content.kind = "list" THEN payload_content.v ELSE <<>>

\* the document with payload i replaced
with_payload(p, i, payload) ==
    DictSet(p, "PayloadContent",
            PyList([payloads_of(p) EXCEPT ![i] = payload]))

----------------------------------------------------------------------------
(* Text: sequences of atoms *)

MaxUuid == 5

uuid4_text_halved(n) == "uuid-" \o ToString(n \div 2)

\* str(uuid.uuid4()): the n-th token drawn in the process, in lower case
uuid4_text(n) == "uuid-" \o ToString(n)

\* the same token after .upper()
uuid4_upper(n) == "UUID-" \o ToString(n)

uuid4(n) == PyStr(<<uuid4_text(n)>>)

UpperCase ==
    <<"A", "B", "C", "D", "E", "F", "G", "H", "I", "J", "K", "L", "M",
      "N", "O", "P", "Q", "R", "S", "T", "U", "V", "W", "X", "Y", "Z">>

LowerCase ==
    <<"a", "b", "c", "d", "e", "f", "g", "h", "i", "j", "k", "l", "m",
      "n", "o", "p", "q", "r", "s", "t", "u", "v", "w", "x", "y", "z">>

LowerAtom(c) ==
    IF \E i \in DOMAIN UpperCase : UpperCase[i] = c
    THEN LowerCase[CHOOSE i \in DOMAIN UpperCase : UpperCase[i] = c]
    ELSE IF \E n \in 1..(MaxUuid + 4) : uuid4_upper(n) = c
    THEN uuid4_text(CHOOSE n \in 1..(MaxUuid + 4) : uuid4_upper(n) = c)
    ELSE c

UpperAtom(c) ==
    IF \E i \in DOMAIN LowerCase : LowerCase[i] = c
    THEN UpperCase[CHOOSE i \in DOMAIN LowerCase : LowerCase[i] = c]
    ELSE IF \E n \in 1..(MaxUuid + 4) : uuid4_text(n) = c
    THEN uuid4_upper(CHOOSE n \in 1..(MaxUuid + 4) : uuid4_text(n) = c)
    ELSE c

\* str.lower(), str.upper()
lower(text) == [i \in DOMAIN text |-> LowerAtom(text[i])]

upper(text) == [i \in DOMAIN text |-> UpperAtom(text[i])]

\* str.replace(ch, '') for a one-character ch
remove(text, ch) == SelectSeq(text, LAMBDA c : c # ch)

\* seq[:n]
first(seq, n) == SubSeq(seq, 1, IF Len(seq) < n THEN Len(seq) ELSE n)

\* sep.join(texts)
RECURSIVE join(_, _)
join(sep, texts) ==
    IF texts = <<>> THEN <<>>
    ELSE IF Len(texts) = 1 THEN texts[1]
    ELSE texts[1] \o sep \o join(sep, Tail(texts))

comma == <<", ">>

dots == <<"...">>

\* a list of texts as a plist array of strings
StrList(texts) == PyList([i \in DOMAIN texts |-> PyStr(texts[i])])

----------------------------------------------------------------------------
(* Catalogs.  app_bundles is the same table, in the same order, in
   simple_profile_generator.py, supervised_profile_generator.py,
   hideaway_bundled.py and hideaway_nanomdm_fixed.py; website_mapping is the
   same in simple_profile_generator.py and supervised_profile_generator.py *)

\* simple_profile_generator.py lines 16-59: app_bundles, in insertion order
app_bundles ==
    <<
      [name |-> <<"I", "n", "s", "t", "a", "g", "r", "a", "m">>,
       bundle |-> <<"com.burbn.instagram">>],
      [name |-> <<"Y", "o", "u", "T", "u", "b", "e">>,
       bundle |-> <<"com.google.ios.youtube">>],
      [name |-> <<"T", "i", "k", "T", "o", "k">>,
       bundle |-> <<"com.zhiliaoapp.musically">>],
      [name |-> <<"F", "a", "c", "e", "b", "o", "o", "k">>,
       bundle |-> <<"com.facebook.Facebook">>],
      [name |-> <<"T", "w", "i", "t", "t", "e", "r", "/", "X">>,
       bundle |-> <<"com.twitter.twitter">>],
      [name |-> <<"S", "n", "a", "p", "c", "h", "a", "t">>,
       bundle |-> <<"com.toyopagroup.picaboo">>],
      [name |-> <<"R", "e", "d", "d", "i", "t">>,
       bundle |-> <<"com.reddit.Reddit">>],
      [name |-> <<"D", "i", "s", "c", "o", "r", "d">>,
       bundle |-> <<"com.hammerandchisel.discord">>],
      [name |-> <<"L", "i", "n", "k", "e", "d", "I", "n">>,
       bundle |-> <<"com.linkedin.LinkedIn">>],
      [name |-> <<"P", "i", "n", "t", "e", "r", "e", "s", "t">>,
       bundle |-> <<"com.pinterest.pinterest">>],
      [name |-> <<"N", "e", "t", "f", "l", "i", "x">>,
       bundle |-> <<"com.netflix.Netflix">>],
      [name |-> <<"D", "i", "s", "n", "e", "y", "+">>,
       bundle |-> <<"com.disney.disneyplus">>],
      [name |-> <<"A", "m", "a", "z", "o", "n", " ", "P", "r", "i", "m", "e">>,
       bundle |-> <<"com.amazon.avod.thirdpartyclient">>],
      [name |-> <<"S", "p", "o", "t", "i", "f", "y">>,
       bundle |-> <<"com.spotify.client">>],
      [name |-> <<"T", "w", "i", "t", "c", "h">>,
       bundle |-> <<"tv.twitch">>],
      [name |-> <<"C", "a", "n", "d", "y", " ", "C", "r", "u", "s", "h">>,
       bundle |-> <<"com.king.candycrushsaga">>],
      [name |-> <<"P", "U", "B", "G", " ", "M", "o", "b", "i", "l", "e">>,
       bundle |-> <<"com.tencent.ig">>],
      [name |-> <<"C", "l", "a", "s", "h", " ", "o", "f", " ", "C", "l", "a", "n", "s">>,
       bundle |-> <<"com.supercell.magic">>],
      [name |-> <<"S", "a", "f", "a", "r", "i">>,
       bundle |-> <<"com.apple.mobilesafari">>],
      [name |-> <<"C", "a", "m", "e", "r", "a">>,
       bundle |-> <<"com.apple.camera">>],
      [name |-> <<"P", "h", "o", "t", "o", "s">>,
       bundle |-> <<"com.apple.mobileslideshow">>],
      [name |-> <<"M", "u", "s", "i", "c">>,
       bundle |-> <<"com.apple.Music">>],
      [name |-> <<"A", "p", "p", " ", "S", "t", "o", "r", "e">>,
       bundle |-> <<"com.apple.AppStore">>],
      [name |-> <<"i", "T", "u", "n", "e", "s", " ", "S", "t", "o", "r", "e">>,
       bundle |-> <<"com.apple.MobileStore">>],
      [name |-> <<"M", "e", "s", "s", "a", "g", "e", "s">>,
       bundle |-> <<"com.apple.MobileSMS">>],
      [name |-> <<"M", "a", "i", "l">>,
       bundle |-> <<"com.apple.mobilemail">>],
      [name |-> <<"F", "a", "c", "e", "T", "i", "m", "e">>,
       bundle |-> <<"com.apple.facetime">>],
      [name |-> <<"M", "a", "p", "s">>,
       bundle |-> <<"com.apple.Maps">>],
      [name |-> <<"N", "e", "w", "s">>,
       bundle |-> <<"com.apple.news">>],
      [name |-> <<"W", "h", "a", "t", "s", "A", "p", "p">>,
       bundle |-> <<"net.whatsapp.WhatsApp">>],
      [name |-> <<"T", "e", "l", "e", "g", "r", "a", "m">>,
       bundle |-> <<"ph.telegra.Telegraph">>],
      [name |-> <<"S", "i", "g", "n", "a", "l">>,
       bundle |-> <<"org.whispersystems.signal">>],
      [name |-> <<"M", "e", "s", "s", "e", "n", "g", "e", "r">>,
       bundle |-> <<"com.facebook.Messenger">>]
    >>

\* hideaway_controller.py lines 37-58: available_apps, in insertion order
available_apps ==
    <<
      [name |-> <<"I", "n", "s", "t", "a", "g", "r", "a", "m">>,
       bundle |-> <<"com.burbn.instagram">>],
      [name |-> <<"Y", "o", "u", "T", "u", "b", "e">>,
       bundle |-> <<"com.google.ios.youtube">>],
      [name |-> <<"T", "i", "k", "T", "o", "k">>,
       bundle |-> <<"com.zhiliaoapp.musically">>],
      [name |-> <<"F", "a", "c", "e", "b", "o", "o", "k">>,
       bundle |-> <<"com.facebook.Facebook">>],
      [name |-> <<"T", "w", "i", "t", "t", "e", "r", "/", "X">>,
       bundle |-> <<"com.twitter.twitter">>],
      [name |-> <<"S", "n", "a", "p", "c", "h", "a", "t">>,
       bundle |-> <<"com.toyopagroup.picaboo">>],
      [name |-> <<"R", "e", "d", "d", "i", "t">>,
       bundle |-> <<"com.reddit.Reddit">>],
      [name |-> <<"W", "h", "a", "t", "s", "A", "p", "p">>,
       bundle |-> <<"net.whatsapp.WhatsApp">>],
      [name |-> <<"T", "e", "l", "e", "g", "r", "a", "m">>,
       bundle |-> <<"ph.telegra.Telegraph">>],
      [name |-> <<"S", "a", "f", "a", "r", "i">>,
       bundle |-> <<"com.apple.mobilesafari">>],
      [name |-> <<"M", "e", "s", "s", "a", "g", "e", "s">>,
       bundle |-> <<"com.apple.MobileSMS">>],
      [name |-> <<"M", "a", "i", "l">>,
       bundle |-> <<"com.apple.mobilemail">>],
      [name |-> <<"C", "a", "m", "e", "r", "a">>,
       bundle |-> <<"com.apple.camera">>],
      [name |-> <<"P", "h", "o", "t", "o", "s">>,
       bundle |-> <<"com.apple.mobileslideshow">>],
      [name |-> <<"M", "u", "s", "i", "c">>,
       bundle |-> <<"com.apple.Music">>],
      [name |-> <<"A", "p", "p", " ", "S", "t", "o", "r", "e">>,
       bundle |-> <<"com.apple.AppStore">>],
      [name |-> <<"N", "e", "t", "f", "l", "i", "x">>,
       bundle |-> <<"com.netflix.Netflix">>],
      [name |-> <<"S", "p", "o", "t", "i", "f", "y">>,
       bundle |-> <<"com.spotify.client">>],
      [name |-> <<"D", "i", "s", "c", "o", "r", "d">>,
       bundle |-> <<"com.hammerandchisel.discord">>],
      [name |-> <<"L", "i", "n", "k", "e", "d", "I", "n">>,
       bundle |-> <<"com.linkedin.LinkedIn">>]
    >>

\* simple_profile_generator.py lines 163-187: website_mapping, in insertion order
website_mapping ==
    <<
      [bundle |-> <<"com.burbn.instagram">>,
       sites |-> <<<<"instagram.com">>, <<"www.instagram.com">>, <<"m.instagram.com">>>>],
      [bundle |-> <<"com.google.ios.youtube">>,
       sites |-> <<<<"youtube.com">>, <<"www.youtube.com">>, <<"m.youtube.com">>, <<"youtu.be">>, <<"music.youtube.com">>>>],
      [bundle |-> <<"com.zhiliaoapp.musically">>,
       sites |-> <<<<"tiktok.com">>, <<"www.tiktok.com">>, <<"m.tiktok.com">>>>],
      [bundle |-> <<"com.facebook.Facebook">>,
       sites |-> <<<<"facebook.com">>, <<"www.facebook.com">>, <<"m.facebook.com">>>>],
      [bundle |-> <<"com.twitter.twitter">>,
       sites |-> <<<<"twitter.com">>, <<"www.twitter.com">>, <<"m.twitter.com">>, <<"x.com">>, <<"www.x.com">>>>],
      [bundle |-> <<"com.reddit.Reddit">>,
       sites |-> <<<<"reddit.com">>, <<"www.reddit.com">>, <<"m.reddit.com">>, <<"old.reddit.com">>>>],
      [bundle |-> <<"com.netflix.Netflix">>,
       sites |-> <<<<"netflix.com">>, <<"www.netflix.com">>>>]
    >>

\* hideaway_bundled.py lines 144-167: website_mapping, in insertion order
website_mapping_bundled ==
    <<
      [bundle |-> <<"com.burbn.instagram">>,
       sites |-> <<<<"instagram.com">>, <<"www.instagram.com">>, <<"m.instagram.com">>>>],
      [bundle |-> <<"com.google.ios.youtube">>,
       sites |-> <<<<"youtube.com">>, <<"www.youtube.com">>, <<"m.youtube.com">>, <<"youtu.be">>, <<"music.youtube.com">>>>],
      [bundle |-> <<"com.zhiliaoapp.musically">>,
       sites |-> <<<<"tiktok.com">>, <<"www.tiktok.com">>, <<"m.tiktok.com">>>>],
      [bundle |-> <<"com.facebook.Facebook">>,
       sites |-> <<<<"facebook.com">>, <<"www.facebook.com">>, <<"m.facebook.com">>>>],
      [bundle |-> <<"com.twitter.twitter">>,
       sites |-> <<<<"twitter.com">>, <<"www.twitter.com">>, <<"x.com">>, <<"www.x.com">>>>],
      [bundle |-> <<"com.toyopagroup.picaboo">>,
       sites |-> <<<<"snapchat.com">>, <<"www.snapchat.com">>>>],
      [bundle |-> <<"com.reddit.Reddit">>,
       sites |-> <<<<"reddit.com">>, <<"www.reddit.com">>, <<"m.reddit.com">>>>]
    >>


----------------------------------------------------------------------------
(* simple_profile_generator.py: SimpleProfileGenerator *)

\* lines 61-102; draws tokens u (profile) and u+1 (restrictions)
create_simple_app_blocking_profile(blocked_apps, profile_name, u) ==
    LET profile_uuid == uuid4(u)
        restrictions_uuid == uuid4(u + 1)
        restrictions_payload ==
            PyDict([PayloadDisplayName |-> S("App Access Restrictions"),
                    PayloadDescription |->
                        S("Restricts access to specified applications"),
                    PayloadIdentifier |->
                        S("com.focuscontroller.apprestrictions"),
                    PayloadType |-> applicationaccess,
                    PayloadUUID |-> restrictions_uuid,
                    PayloadVersion |-> PyInt(1),
                    blacklistedAppBundleIDs |-> StrList(blocked_apps)])
    IN  PyDict([PayloadContent |->
                    PyList(IF blocked_apps # <<>>
                           THEN <<restrictions_payload>> ELSE <<>>),
                PayloadDescription |->
                    PyStr(<<"Blocks specified apps: ">>
                          \o join(comma, first(blocked_apps, 3))
                          \o (IF Len(blocked_apps) > 3 THEN dots ELSE <<>>)),
                PayloadDisplayName |-> PyStr(profile_name),
                PayloadIdentifier |->
                    PyStr(<<"com.focuscontroller.">>
                          \o remove(remove(lower(profile_name), " "), "-")),
                PayloadOrganization |-> S("Focus Controller"),
                PayloadRemovalDisallowed |-> PyBool(FALSE),
                PayloadType |-> Configuration,
                PayloadUUID |-> profile_uuid,
                PayloadVersion |-> PyInt(1)])

webcontent_filter == PyStr(<<"com.apple.", "webcontent-filter">>)

focuscontroller_webfilter_copied == S("com.focuscontroller.apprestrictions")

\* the PayloadIdentifier of the web-filter payloads (line 117, line 237, and
\* supervised_profile_generator.py line 146)
focuscontroller_webfilter == S("com.focuscontroller.webfilter")

\* lines 104-139; draws tokens u (profile) and u+1 (filter)
create_web_blocking_profile(blocked_websites, profile_name, u) ==
    LET profile_uuid == uuid4(u)
        filter_uuid == uuid4(u + 1)
    IN  PyDict([PayloadContent |-> PyList(<<
                    PyDict([PayloadDisplayName |-> S("Web Content Filter"),
                            PayloadDescription |->
                                S("Blocks specified websites"),
                            PayloadIdentifier |-> focuscontroller_webfilter,
                            PayloadType |-> webcontent_filter,
                            PayloadUUID |-> filter_uuid,
                            PayloadVersion |-> PyInt(1),
                            FilterType |-> S("BuiltIn"),
                            AutoFilterEnabled |-> PyBool(TRUE),
                            FilterBrowsers |-> PyBool(TRUE),
                            FilterSockets |-> PyBool(TRUE),
                            DenyListURLs |-> StrList(blocked_websites)])>>),
                PayloadDescription |->
                    PyStr(<<"Blocks websites: ">>
                          \o join(comma, first(blocked_websites, 3))
                          \o (IF Len(blocked_websites) > 3
                              THEN dots ELSE <<>>)),
                PayloadDisplayName |-> PyStr(profile_name),
                PayloadIdentifier |->
                    PyStr(<<"com.focuscontroller.">>
                          \o remove(remove(lower(profile_name), " "), "-")),
                PayloadOrganization |-> S("Focus Controller"),
                PayloadRemovalDisallowed |-> PyBool(FALSE),
                PayloadType |-> Configuration,
                PayloadUUID |-> profile_uuid,
                PayloadVersion |-> PyInt(1)])

\* lines 141-158; draws token u
create_removal_profile(u) ==
    PyDict([PayloadContent |-> PyList(<<>>),
            PayloadDescription |-> S("Removes app blocking restrictions"),
            PayloadDisplayName |-> S("Remove Restrictions"),
            PayloadIdentifier |-> S("com.focuscontroller.remove"),
            PayloadOrganization |-> S("Focus Controller"),
            PayloadRemovalDisallowed |-> PyBool(FALSE),
            PayloadType |-> Configuration,
            PayloadUUID |-> uuid4(u),
            PayloadVersion |-> PyInt(1)])

\* the lookup without the membership test, falling back on the first entry
sites_of_or_first(mapping, app_id) ==
    IF \E i \in DOMAIN mapping : mapping[i].bundle = app_id
    THEN mapping[CHOOSE i \in DOMAIN mapping : mapping[i].bundle = app_id].sites
    ELSE mapping[1].sites

\* the sites of the mapping entry for app_id, <<>> when it has none
\* (`if app_id in website_mapping: websites.extend(website_mapping[app_id])`)
sites_of(mapping, app_id) ==
    IF \E i \in DOMAIN mapping : mapping[i].bundle = app_id
    THEN mapping[CHOOSE i \in DOMAIN mapping : mapping[i].bundle = app_id].sites
    ELSE <<>>

RECURSIVE related_websites(_, _)
related_websites(mapping, app_bundle_ids) ==
    IF app_bundle_ids = <<>> THEN <<>>
    ELSE sites_of(mapping, Head(app_bundle_ids))
           \o related_websites(mapping, Tail(app_bundle_ids))

\* the derivation with the sites of the first mapping entry always added
get_website_list_with_default(app_bundle_ids) ==
    related_websites(website_mapping, app_bundle_ids)
      \o website_mapping[1].sites

\* lines 160-194
get_website_list_for_apps(app_bundle_ids) ==
    related_websites(website_mapping, app_bundle_ids)

\* len(x) rendered by an f-string: one atom holding the decimal digits
count_text(seq) == <<ToString(Len(seq))>>

\* lines 196-249; draws tokens u (profile), u+1 (apps), u+2 (web filter)
create_combo_profile(blocked_apps, profile_name, u) ==
    LET websites == get_website_list_for_apps(blocked_apps)
        profile_uuid == uuid4(u)
        app_restrictions_uuid == uuid4(u + 1)
        web_filter_uuid == uuid4(u + 2)
        app_payload ==
            PyDict([PayloadDisplayName |-> S("App Restrictions"),
                    PayloadDescription |-> S("Blocks specified applications"),
                    PayloadIdentifier |->
                        S("com.focuscontroller.apprestrictions"),
                    PayloadType |-> applicationaccess,
                    PayloadUUID |-> app_restrictions_uuid,
                    PayloadVersion |-> PyInt(1),
                    blacklistedAppBundleIDs |-> StrList(blocked_apps)])
        web_payload ==
            PyDict([PayloadDisplayName |-> S("Website Restrictions"),
                    PayloadDescription |-> S("Blocks specified websites"),
                    PayloadIdentifier |-> focuscontroller_webfilter,
                    PayloadType |-> webcontent_filter,
                    PayloadUUID |-> web_filter_uuid,
                    PayloadVersion |-> PyInt(1),
                    FilterType |-> S("BuiltIn"),
                    AutoFilterEnabled |-> PyBool(TRUE),
                    FilterBrowsers |-> PyBool(TRUE),
                    FilterSockets |-> PyBool(TRUE),
                    DenyListURLs |-> StrList(websites)])
    IN  PyDict([PayloadContent |->
                    PyList((IF blocked_apps # <<>>
                            THEN <<app_payload>> ELSE <<>>)
                           \o (IF websites # <<>>
                               THEN <<web_payload>> ELSE <<>>)),
                PayloadDescription |->
                    PyStr(<<"Blocks ">> \o count_text(blocked_apps)
                          \o <<" apps and ">> \o count_text(websites)
                          \o <<" websites">>),
                PayloadDisplayName |-> PyStr(profile_name),
                PayloadIdentifier |->
                    PyStr(<<"com.focuscontroller.">>
                          \o remove(remove(lower(profile_name), " "), "-")),
                PayloadOrganization |-> S("Focus Controller"),
                PayloadRemovalDisallowed |-> PyBool(FALSE),
                PayloadType |-> Configuration,
                PayloadUUID |-> profile_uuid,
                PayloadVersion |-> PyInt(1)])

----------------------------------------------------------------------------
(* supervised_profile_generator.py: SupervisedProfileGenerator *)

\* lines 184-218
_get_related_websites(blocked_apps) ==
    related_websites(website_mapping, blocked_apps)

familycontrols_contentfilter ==
    PyStr(<<"com.apple.", "familycontrols.contentfilter">>)

\* lines 62-162; draws tokens u (profile), u+1 (restrictions),
\* u+2 (parental controls), u+3 (web filter)
create_app_blocking_profile_supervised(blocked_apps, profile_name, u) ==
    LET profile_uuid == uuid4(u)
        restrictions_uuid == uuid4(u + 1)
        restrictions_payload ==
            PyDict([PayloadDisplayName |-> S("App Restrictions"),
                    PayloadDescription |->
                        S("Prevents access to specified applications"),
                    PayloadIdentifier |->
                        S("com.focuscontroller.apprestrictions"),
                    PayloadType |-> applicationaccess,
                    PayloadUUID |-> restrictions_uuid,
                    PayloadVersion |-> PyInt(1),
                    allowAppInstallation |-> PyBool(FALSE),
                    allowAppRemoval |-> PyBool(FALSE),
                    allowUIAppInstallation |-> PyBool(FALSE),
                    blacklistedAppBundleIDs |-> StrList(blocked_apps),
                    allowMultiplayer |-> PyBool(FALSE),
                    allowAddingGameCenterFriends |-> PyBool(FALSE)])
        parental_uuid == uuid4(u + 2)
        parental_payload ==
            PyDict([PayloadDisplayName |-> S("Parental Controls"),
                    PayloadIdentifier |-> S("com.focuscontroller.parental"),
                    PayloadType |-> familycontrols_contentfilter,
                    PayloadUUID |-> parental_uuid,
                    PayloadVersion |-> PyInt(1),
                    restrictedApps |->
                        PyDict([bundleIdentifiers |-> StrList(blocked_apps)]),
                    timeRestrictions |->
                        PyDict([allowedHours |->
                            PyDict([start |-> S("06:00"),
                                    end |-> S("22:00")])])])
        web_filter_uuid == uuid4(u + 3)
        web_filter_payload ==
            PyDict([PayloadDisplayName |-> S("Web Content Filter"),
                    PayloadIdentifier |-> focuscontroller_webfilter,
                    PayloadType |-> webcontent_filter,
                    PayloadUUID |-> web_filter_uuid,
                    PayloadVersion |-> PyInt(1),
                    FilterType |-> S("BuiltIn"),
                    AutoFilterEnabled |-> PyBool(TRUE),
                    FilterBrowsers |-> PyBool(TRUE),
                    FilterSockets |-> PyBool(TRUE),
                    DenyListURLs |->
                        StrList(_get_related_websites(blocked_apps))])
    IN  PyDict([PayloadContent |->
                    PyList(<<restrictions_payload, parental_payload,
                             web_filter_payload>>),
                PayloadDescription |->
                    S("Blocks selected apps to improve focus and productivity"),
                PayloadDisplayName |-> PyStr(profile_name),
                PayloadIdentifier |->
                    PyStr(<<"com.focuscontroller.">>
                          \o remove(lower(profile_name), " ")),
                PayloadOrganization |-> S("Focus Controller"),
                PayloadRemovalDisallowed |-> PyBool(TRUE),
                PayloadType |-> Configuration,
                PayloadUUID |-> profile_uuid,
                PayloadVersion |-> PyInt(1),
                PayloadScope |-> S("System")])

\* lines 220-237; draws token u
create_unblock_profile(u) ==
    PyDict([PayloadContent |-> PyList(<<>>),
            PayloadDescription |-> S("Removes app blocking restrictions"),
            PayloadDisplayName |-> S("Normal Mode - Unblock Apps"),
            PayloadIdentifier |-> S("com.focuscontroller.unblock"),
            PayloadOrganization |-> S("Focus Controller"),
            PayloadRemovalDisallowed |-> PyBool(FALSE),
            PayloadType |-> Configuration,
            PayloadUUID |-> uuid4(u),
            PayloadVersion |-> PyInt(1)])

----------------------------------------------------------------------------
(* hideaway_bundled.py: SupervisedProfileGenerator *)

\* lines 142-174
_get_related_websites_bundled(blocked_apps) ==
    related_websites(website_mapping_bundled, blocked_apps)

\* lines 81-140; draws tokens u (profile), u+1 (restrictions),
\* u+2 (web filter)
create_app_blocking_profile_bundled(blocked_apps, profile_name, u) ==
    LET profile_uuid == uuid4(u)
        restrictions_uuid == uuid4(u + 1)
        restrictions_payload ==
            PyDict([PayloadDisplayName |-> S("App Restrictions"),
                    PayloadDescription |->
                        S("Prevents access to specified applications"),
                    PayloadIdentifier |-> S("com.hideaway.apprestrictions"),
                    PayloadType |-> applicationaccess,
                    PayloadUUID |-> restrictions_uuid,
                    PayloadVersion |-> PyInt(1),
                    blacklistedAppBundleIDs |-> StrList(blocked_apps),
                    allowMultiplayer |-> PyBool(FALSE),
                    allowAddingGameCenterFriends |-> PyBool(FALSE)])
        web_filter_uuid == uuid4(u + 2)
        web_filter_payload ==
            PyDict([PayloadDisplayName |-> S("Web Content Filter"),
                    PayloadIdentifier |-> S("com.hideaway.webfilter"),
                    PayloadType |-> webcontent_filter,
                    PayloadUUID |-> web_filter_uuid,
                    PayloadVersion |-> PyInt(1),
                    FilterType |-> S("BuiltIn"),
                    AutoFilterEnabled |-> PyBool(TRUE),
                    FilterBrowsers |-> PyBool(TRUE),
                    FilterSockets |-> PyBool(TRUE),
                    DenyListURLs |->
                        StrList(_get_related_websites_bundled(blocked_apps))])
    IN  PyDict([PayloadContent |->
                    PyList(<<restrictions_payload, web_filter_payload>>),
                PayloadDescription |->
                    S("Blocks selected apps to improve focus and productivity"),
                PayloadDisplayName |-> PyStr(profile_name),
                PayloadIdentifier |->
                    PyStr(<<"com.hideaway.">>
                          \o remove(lower(profile_name), " ")),
                PayloadOrganization |-> S("Hideaway"),
                PayloadRemovalDisallowed |-> PyBool(TRUE),
                PayloadType |-> Configuration,
                PayloadUUID |-> profile_uuid,
                PayloadVersion |-> PyInt(1),
                PayloadScope |-> S("System")])

----------------------------------------------------------------------------
(* hideaway_nanomdm_fixed.py: SupervisedProfileGenerator *)

\* str(uuid.uuid4()).upper()
uuid4_UPPER(n) == PyStr(upper(<<uuid4_text(n)>>))

\* lines 79-115; draws tokens u (profile) and u+1 (restrictions)
create_app_blocking_profile_nanomdm(blocked_apps, profile_name, u) ==
    LET profile_uuid == uuid4_UPPER(u)
        restrictions_uuid == uuid4_UPPER(u + 1)
        restrictions_payload ==
            PyDict([PayloadDisplayName |-> S("App Restrictions"),
                    PayloadDescription |->
                        S("Restricts access to specified applications"),
                    PayloadIdentifier |->
                        PyStr(<<"com.hideaway.restrictions.">>
                              \o lower(restrictions_uuid.v)),
                    PayloadType |-> applicationaccess,
                    PayloadUUID |-> restrictions_uuid,
                    PayloadVersion |-> PyInt(1),
                    familyControlsEnabled |-> PyBool(FALSE),
                    blacklistedAppBundleIDs |-> StrList(blocked_apps)])
    IN  PyDict([PayloadContent |-> PyList(<<restrictions_payload>>),
                PayloadDescription |->
                    PyStr(<<"Blocks selected apps: ">>
                          \o join(comma, first(blocked_apps, 3))
                          \o (IF Len(blocked_apps) > 3 THEN dots ELSE <<>>)),
                PayloadDisplayName |-> PyStr(profile_name),
                PayloadIdentifier |->
                    PyStr(<<"com.hideaway.appblock.">>
                          \o lower(profile_uuid.v)),
                PayloadOrganization |-> S("Hideaway"),
                PayloadRemovalDisallowed |-> PyBool(FALSE),
                PayloadType |-> Configuration,
                PayloadUUID |-> profile_uuid,
                PayloadVersion |-> PyInt(1)])

----------------------------------------------------------------------------
(* Enrollment profiles: setup_iphone.py, fixed_setup.py, manual_setup.py,
   hideaway_bundled.py and hideaway_nanomdm_fixed.py *)

security_scep == PyStr(<<"com.apple.", "security.scep">>)

mdm == PyStr(<<"com.apple.", "mdm">>)

\* "Subject": [[["CN", "Focus Controller Device"]], [["O", "Focus Controller"]]]
scep_subject ==
    PyList(<<PyList(<<PyList(<<S("CN"), S("Focus Controller Device")>>)>>),
             PyList(<<PyList(<<S("O"), S("Focus Controller")>>)>>)>>)

\* the SCEP and MDM payloads shared, field for field, by setup_iphone.py
\* (lines 209-244), fixed_setup.py (lines 152-187) and manual_setup.py
\* (lines 111-146)
focuscontroller_scep_payload(scep_uuid, url) ==
    PyDict([PayloadDisplayName |-> S("Device Certificate"),
            PayloadIdentifier |-> S("com.focuscontroller.scep"),
            PayloadType |-> security_scep,
            PayloadUUID |-> scep_uuid,
            PayloadVersion |-> PyInt(1),
            URL |-> PyStr(url),
            Challenge |-> S("focuscontroller"),
            Subject |-> scep_subject,
            KeyType |-> S("RSA"),
            KeySize |-> PyInt(2048),
            KeyUsage |-> PyInt(5),
            AllowAllAppsAccess |-> PyBool(FALSE)])

focuscontroller_mdm_payload_self(mdm_uuid, identity, topic, server_url) ==
    PyDict([PayloadDisplayName |-> S("Focus Controller MDM"),
            PayloadIdentifier |-> S("com.focuscontroller.mdm"),
            PayloadType |-> mdm,
            PayloadUUID |-> mdm_uuid,
            PayloadVersion |-> PyInt(1),
            IdentityCertificateUUID |-> mdm_uuid,
            Topic |-> PyStr(topic),
            ServerURL |-> PyStr(server_url),
            CheckInURL |-> PyStr(server_url),
            CheckOutWhenRemoved |-> PyBool(TRUE),
            AccessRights |-> PyInt(8191),
            UseDevelopmentAPNS |-> PyBool(FALSE)])

focuscontroller_mdm_payload(mdm_uuid, identity, topic, server_url) ==
    PyDict([PayloadDisplayName |-> S("Focus Controller MDM"),
            PayloadIdentifier |-> S("com.focuscontroller.mdm"),
            PayloadType |-> mdm,
            PayloadUUID |-> mdm_uuid,
            PayloadVersion |-> PyInt(1),
            IdentityCertificateUUID |-> identity,
            Topic |-> PyStr(topic),
            ServerURL |-> PyStr(server_url),
            CheckInURL |-> PyStr(server_url),
            CheckOutWhenRemoved |-> PyBool(TRUE),
            AccessRights |-> PyInt(8191),
            UseDevelopmentAPNS |-> PyBool(FALSE)])

focuscontroller_enrollment(profile_uuid, payloads) ==
    PyDict([PayloadContent |-> PyList(payloads),
            PayloadDescription |->
                S("Focus Controller - Remote iPhone app blocking"),
            PayloadDisplayName |-> S("Focus Controller"),
            PayloadIdentifier |-> S("com.focuscontroller.enrollment"),
            PayloadOrganization |-> S("Focus Controller"),
            PayloadRemovalDisallowed |-> PyBool(FALSE),
            PayloadType |-> Configuration,
            PayloadUUID |-> profile_uuid,
            PayloadVersion |-> PyInt(1)])

placeholder_topic == <<"com.apple.mgmt.External.placeholder">>

\* setup_iphone.py lines 198-265; draws tokens u (profile), u+1 (scep),
\* u+2 (mdm)
create_enrollment_profile_setup_iphone(nanomdm_url, scep_url, push_topic, u) ==
    LET profile_uuid == uuid4(u)
        scep_uuid == uuid4(u + 1)
        mdm_uuid == uuid4(u + 2)
    IN  focuscontroller_enrollment(profile_uuid,
            <<focuscontroller_scep_payload(scep_uuid, scep_url \o <<"/scep">>),
              focuscontroller_mdm_payload(mdm_uuid, scep_uuid, push_topic,
                                          nanomdm_url \o <<"/mdm">>)>>)

\* fixed_setup.py lines 138-210; same draw order
create_enrollment_profile_fixed_setup(mac_ip, u) ==
    LET profile_uuid == uuid4(u)
        scep_uuid == uuid4(u + 1)
        mdm_uuid == uuid4(u + 2)
        scep_url == <<"http://">> \o mac_ip \o <<":8080/scep">>
        mdm_url == <<"http://">> \o mac_ip \o <<":9000/mdm">>
    IN  focuscontroller_enrollment(profile_uuid,
            <<focuscontroller_scep_payload(scep_uuid, scep_url),
              focuscontroller_mdm_payload(mdm_uuid, scep_uuid,
                                          placeholder_topic, mdm_url)>>)

\* manual_setup.py lines 100-165; same draw order
create_enrollment_profile_manual_setup(u) ==
    LET profile_uuid == uuid4(u)
        scep_uuid == uuid4(u + 1)
        mdm_uuid == uuid4(u + 2)
    IN  focuscontroller_enrollment(profile_uuid,
            <<focuscontroller_scep_payload(scep_uuid,
                                           <<"http://127.0.0.1:8080/scep">>),
              focuscontroller_mdm_payload(mdm_uuid, scep_uuid,
                                          placeholder_topic,
                                          <<"http://127.0.0.1:9000/mdm">>)>>)

\* hideaway_bundled.py lines 219-225: f"http://127.0.0.1:{port}"
nanomdm_url_bundled == <<"http://127.0.0.1:", "9000">>

scep_url_bundled == <<"http://127.0.0.1:", "8080">>

\* hideaway_bundled.py lines 234-303; draws tokens u (profile), u+1 (mdm),
\* u+2 (scep)
create_enrollment_profile_bundled(device_name, u) ==
    LET profile_uuid == uuid4(u)
        mdm_uuid == uuid4(u + 1)
        scep_uuid == uuid4(u + 2)
        scep_payload ==
            PyDict([PayloadDisplayName |-> S("Device Certificate"),
                    PayloadDescription |->
                        S("Configures device certificate via SCEP"),
                    PayloadIdentifier |-> S("com.hideaway.scep"),
                    PayloadType |-> security_scep,
                    PayloadUUID |-> scep_uuid,
                    PayloadVersion |-> PyInt(1),
                    URL |-> PyStr(scep_url_bundled \o <<"/scep">>),
                    Challenge |-> S("hideaway"),
                    Keysize |-> PyInt(2048),
                    KeyType |-> S("RSA"),
                    KeyUsage |-> PyInt(5)])
        mdm_payload ==
            PyDict([PayloadDisplayName |-> S("Mobile Device Management"),
                    PayloadDescription |->
                        S("Configures Mobile Device Management"),
                    PayloadIdentifier |-> S("com.hideaway.mdm"),
                    PayloadType |-> mdm,
                    PayloadUUID |-> mdm_uuid,
                    PayloadVersion |-> PyInt(1),
                    ServerURL |-> PyStr(nanomdm_url_bundled \o <<"/mdm">>),
                    CheckInURL |->
                        PyStr(nanomdm_url_bundled \o <<"/checkin">>),
                    CheckOutWhenRemoved |-> PyBool(TRUE),
                    Topic |-> S("com.hideaway.mdm"),
                    IdentityCertificateUUID |-> scep_uuid,
                    ServerCapabilities |->
                        PyList(<<S("com.apple.mdm.per-user-connections")>>),
                    AccessRights |-> PyInt(8191)])
    IN  PyDict([PayloadContent |-> PyList(<<scep_payload, mdm_payload>>),
                PayloadDescription |-> S("Hideaway iPhone Enrollment Profile"),
                PayloadDisplayName |-> PyStr(<<"Hideaway - ">> \o device_name),
                PayloadIdentifier |-> S("com.hideaway.enrollment"),
                PayloadOrganization |-> S("Hideaway"),
                PayloadRemovalDisallowed |-> PyBool(FALSE),
                PayloadType |-> Configuration,
                PayloadUUID |-> profile_uuid,
                PayloadVersion |-> PyInt(1)])

\* hideaway_nanomdm_fixed.py lines 164-165
nanomdm_url_nanomdm == <<"https://your-mdm-server.com">>

scep_url_nanomdm == <<"https://your-scep-server.com">>

\* hideaway_nanomdm_fixed.py lines 174-239; draws tokens u (profile),
\* u+1 (scep), u+2 (mdm), all upper-cased
create_enrollment_profile_nanomdm(device_name, u) ==
    LET profile_uuid == uuid4_UPPER(u)
        scep_uuid == uuid4_UPPER(u + 1)
        mdm_uuid == uuid4_UPPER(u + 2)
        scep_payload ==
            PyDict([PayloadContent |->
                        PyDict(("URL" :> PyStr(scep_url_nanomdm \o <<"/scep">>))
                               @@ ("Challenge" :> S("hideaway"))
                               @@ ("Key Type" :> S("RSA"))
                               @@ ("Key Usage" :> PyInt(5))
                               @@ ("Keysize" :> PyInt(2048))),
                    PayloadIdentifier |-> S("com.hideaway.scep"),
                    PayloadType |-> security_scep,
                    PayloadUUID |-> scep_uuid,
                    PayloadVersion |-> PyInt(1)])
        mdm_payload ==
            PyDict([AccessRights |-> PyInt(8191),
                    CheckOutWhenRemoved |-> PyBool(TRUE),
                    IdentityCertificateUUID |-> scep_uuid,
                    PayloadIdentifier |-> S("com.hideaway.mdm"),
                    PayloadType |-> mdm,
                    PayloadUUID |-> mdm_uuid,
                    PayloadVersion |-> PyInt(1),
                    ServerCapabilities |->
                        PyList(<<S("com.apple.mdm.per-user-connections"),
                                 S("com.apple.mdm.bootstraptoken"),
                                 S("com.apple.mdm.token")>>),
                    ServerURL |-> PyStr(nanomdm_url_nanomdm \o <<"/mdm">>),
                    SignMessage |-> PyBool(TRUE),
                    Topic |->
                        S("com.apple.mgmt.External.hideaway-push-topic")])
    IN  PyDict([PayloadContent |-> PyList(<<scep_payload, mdm_payload>>),
                PayloadDisplayName |->
                    PyStr(<<"Hideaway Enrollment - ">> \o device_name),
                PayloadIdentifier |-> S("com.hideaway.enrollment"),
                PayloadType |-> Configuration,
                PayloadUUID |-> profile_uuid,
                PayloadVersion |-> PyInt(1)])

----------------------------------------------------------------------------
(* GUI controllers: hideaway_controller.py, hideaway_bundled.py,
   hideaway_nanomdm_fixed.py (class HideawayController) *)

\* ', ' and the literal name prefixes, one atom per character because the
\* names built from them are lower-cased, stripped of spaces and sliced
comma_chars == <<",", " ">>

hideaway_block_paren == <<"H", "i", "d", "e", "a", "w", "a", "y", " ", "B", "l", "o", "c", "k", " ", "(">>

hideaway_block_dash == <<"H", "i", "d", "e", "a", "w", "a", "y", " ", "B", "l", "o", "c", "k", " ", "-", " ">>

\* dict.values() / dict.items() order of the catalog
bundles_of(apps) == [i \in DOMAIN apps |-> apps[i].bundle]

\* [bundle_id for bundle_id, var in self.app_vars.items() if var.get()]
selected_bundles_of(apps, checked) ==
    SelectSeq(bundles_of(apps), LAMBDA b : checked[b])

\* sum(1 for var in self.app_vars.values() if var.get())
selected_count_of(apps, checked) == Len(selected_bundles_of(apps, checked))

\* the inner loop without its break, keeping the last name found
names_for_last(apps, bundle_id) ==
    IF \E i \in DOMAIN apps : apps[i].bundle = bundle_id
    THEN <<apps[CHOOSE i \in DOMAIN apps :
                  /\ apps[i].bundle = bundle_id
                  /\ \A j \in (i + 1)..Len(apps) :
                        apps[j].bundle # bundle_id].name>>
    ELSE <<>>

\* the inner loop `for app_name, bundle in self.available_apps.items():
\* if bundle == bundle_id: app_names.append(app_name); break`
names_for(apps, bundle_id) ==
    IF \E i \in DOMAIN apps : apps[i].bundle = bundle_id
    THEN <<apps[CHOOSE i \in DOMAIN apps :
                  /\ apps[i].bundle = bundle_id
                  /\ \A j \in 1..(i - 1) : apps[j].bundle # bundle_id].name>>
    ELSE <<>>

RECURSIVE app_names_of(_, _)
app_names_of(apps, bundle_ids) ==
    IF bundle_ids = <<>> THEN <<>>
    ELSE names_for(apps, Head(bundle_ids))
           \o app_names_of(apps, Tail(bundle_ids))

\* `if not selected_bundles and block_apps: raise Exception(...)`
generate_raises(selected_bundles, block_apps) ==
    selected_bundles = <<>> /\ block_apps

\* number of uuid4() calls of generate_blocking_profile
generate_draws(v, block_apps) ==
    CASE v = "controller" -> IF block_apps THEN 2 ELSE 1
      [] v = "bundled" -> IF block_apps THEN 3 ELSE 1
      [] v = "nanomdm" -> 2

\* hideaway_controller.py lines 231-293; draws token u (profile) and,
\* when blocking, u+1 (restrictions)
generate_blocking_profile_controller(selected_bundles, block_apps, u) ==
    LET profile_uuid == uuid4(u)
        app_names ==
            app_names_of(self_available_apps, first(selected_bundles, 3))
        restrictions_uuid == uuid4(u + 1)
        restrictions_payload ==
            PyDict([PayloadDisplayName |-> S("App Restrictions"),
                    PayloadDescription |->
                        S("Restricts access to specified applications"),
                    PayloadIdentifier |-> S("com.hideaway.restrictions"),
                    PayloadType |-> applicationaccess,
                    PayloadUUID |-> restrictions_uuid,
                    PayloadVersion |-> PyInt(1),
                    blacklistedAppBundleIDs |-> StrList(selected_bundles)])
    IN  IF block_apps
        THEN PyDict([PayloadContent |-> PyList(<<restrictions_payload>>),
                     PayloadDescription |->
                         PyStr(<<"Blocks apps: ">>
                               \o join(comma, app_names)
                               \o (IF Len(selected_bundles) > 3
                                   THEN dots ELSE <<>>)),
                     PayloadDisplayName |-> S("Focus Mode"),
                     PayloadIdentifier |-> S("com.hideaway.dynamic"),
                     PayloadOrganization |-> S("Hideaway"),
                     PayloadRemovalDisallowed |-> PyBool(FALSE),
                     PayloadType |-> Configuration,
                     PayloadUUID |-> profile_uuid,
                     PayloadVersion |-> PyInt(1)])
        ELSE PyDict([PayloadContent |-> PyList(<<>>),
                     PayloadDescription |->
                         S("Removes app blocking restrictions"),
                     PayloadDisplayName |-> S("Normal Mode"),
                     PayloadIdentifier |-> S("com.hideaway.remove"),
                     PayloadOrganization |-> S("Hideaway"),
                     PayloadRemovalDisallowed |-> PyBool(FALSE),
                     PayloadType |-> Configuration,
                     PayloadUUID |-> profile_uuid,
                     PayloadVersion |-> PyInt(1)])

toggle_unblock_profile_without_description(u) ==
    PyDict([PayloadContent |-> PyList(<<>>),
            PayloadDisplayName |-> S("Normal Mode"),
            PayloadIdentifier |-> S("com.hideaway.remove"),
            PayloadType |-> Configuration,
            PayloadUUID |-> uuid4(u),
            PayloadVersion |-> PyInt(1)])

\* hideaway_controller.py lines 362-370: the document built by the unblock
\* branch of toggle_blocking; draws token u
toggle_unblock_profile(u) ==
    PyDict([PayloadContent |-> PyList(<<>>),
            PayloadDescription |-> S("Remove restrictions"),
            PayloadDisplayName |-> S("Normal Mode"),
            PayloadIdentifier |-> S("com.hideaway.remove"),
            PayloadType |-> Configuration,
            PayloadUUID |-> uuid4(u),
            PayloadVersion |-> PyInt(1)])

\* hideaway_bundled.py lines 510-545; blocking draws u..u+2 in the
\* generator, unblocking draws token u
generate_blocking_profile_bundled(selected_bundles, block_apps, u) ==
    LET app_names ==
            app_names_of(self_available_apps, first(selected_bundles, 3))
    IN  IF block_apps
        THEN create_app_blocking_profile_bundled(
                 selected_bundles,
                 hideaway_block_paren \o join(comma_chars, app_names)
                   \o (IF Len(selected_bundles) > 3 THEN dots ELSE <<>>)
                   \o <<")">>,
                 u)
        ELSE PyDict([PayloadContent |-> PyList(<<>>),
                     PayloadDescription |->
                         S("Removes app blocking restrictions"),
                     PayloadDisplayName |-> S("Hideaway Unblock"),
                     PayloadIdentifier |-> S("com.hideaway.remove"),
                     PayloadOrganization |-> S("Hideaway"),
                     PayloadRemovalDisallowed |-> PyBool(FALSE),
                     PayloadType |-> Configuration,
                     PayloadUUID |-> uuid4(u),
                     PayloadVersion |-> PyInt(1)])

\* hideaway_nanomdm_fixed.py lines 464-499; blocking draws u, u+1 in the
\* generator; unblocking draws u for the identifier and u+1 for PayloadUUID
generate_blocking_profile_nanomdm(selected_bundles, block_apps, u) ==
    LET app_names ==
            app_names_of(self_available_apps, first(selected_bundles, 3))
    IN  IF block_apps
        THEN create_app_blocking_profile_nanomdm(
                 selected_bundles,
                 first(hideaway_block_dash \o join(comma_chars, app_names),
                       50),
                 u)
        ELSE PyDict([PayloadContent |-> PyList(<<>>),
                     PayloadDescription |->
                         S("Removes app blocking restrictions"),
                     PayloadDisplayName |-> S("Hideaway Unblock"),
                     PayloadIdentifier |->
                         PyStr(<<"com.hideaway.remove.">>
                               \o lower(<<uuid4_text(u)>>)),
                     PayloadOrganization |-> S("Hideaway"),
                     PayloadRemovalDisallowed |-> PyBool(FALSE),
                     PayloadType |-> Configuration,
                     PayloadUUID |-> uuid4_UPPER(u + 1),
                     PayloadVersion |-> PyInt(1)])

\* the catalog behind the checkboxes of each program
available_apps_of(v) ==
    IF v = "controller" THEN available_apps ELSE app_bundles

generate_blocking_profile(v, selected_bundles, block_apps, u) ==
    CASE v = "controller" ->
           generate_blocking_profile_controller(selected_bundles, block_apps, u)
      [] v = "bundled" ->
           generate_blocking_profile_bundled(selected_bundles, block_apps, u)
      [] v = "nanomdm" ->
           generate_blocking_profile_nanomdm(selected_bundles, block_apps, u)

\* select_social_media
social_apps ==
    << <<"com.burbn.instagram">>, <<"com.google.ios.youtube">>,
       <<"com.zhiliaoapp.musically">>, <<"com.facebook.Facebook">>,
       <<"com.twitter.twitter">>, <<"com.toyopagroup.picaboo">> >>

\* str.strip() of the device entry: leading and trailing blanks removed
RECURSIVE lstrip(_)
lstrip(text) ==
    IF text # <<>> /\ Head(text) = " " THEN lstrip(Tail(text)) ELSE text

RECURSIVE rstrip(_)
rstrip(text) ==
    IF text # <<>> /\ text[Len(text)] = " "
    THEN rstrip(SubSeq(text, 1, Len(text) - 1)) ELSE text

strip(text) == rstrip(lstrip(text))

demo_device == <<"demo_device">>

BLOCK_APPS == "BLOCK APPS"

UNBLOCK_APPS == "UNBLOCK APPS"

----------------------------------------------------------------------------
(* The on-disk form: plistlib.dump as save_profile calls it (XML format,
   sort_keys=True) and plistlib.load as validate_profile calls it.  A file
   is a tree of elements [tag, val]:
     string   val is the escaped text        integer  val is the number
     true / false                            array    val is a sequence
     dict     val is a sequence of <<key, element>> pairs, one per key *)

NoFile == [name |-> <<>>, content |-> [tag |-> "none", val |-> <<>>]]

\* characters the XML writer refuses (ValueError); form feed stands for them
ControlChars == {"\f"}

\* plistlib._escape: "\r\n" and "\r" become "\n"; & < > become entities
RECURSIVE _escape(_)
_escape(text) ==
    IF text = <<>> THEN <<>>
    ELSE IF Head(text) = "\r"
    THEN IF Len(text) >= 2 /\ text[2] = "\n"
         THEN _escape(Tail(text))
         ELSE <<"\n">> \o _escape(Tail(text))
    ELSE IF Head(text) = "&" THEN <<"&amp;">> \o _escape(Tail(text))
    ELSE IF Head(text) = "<" THEN <<"&lt;">> \o _escape(Tail(text))
    ELSE IF Head(text) = ">" THEN <<"&gt;">> \o _escape(Tail(text))
    ELSE <<Head(text)>> \o _escape(Tail(text))

\* what the XML parser hands back for escaped text
_unescape(text) ==
    [i \in DOMAIN text |->
        CASE text[i] = "&amp;" -> "&"
          [] text[i] = "&lt;"  -> "<"
          [] text[i] = "&gt;"  -> ">"
          [] OTHER             -> text[i]]

\* the keys of a dict in the order the writer emits them (sorted(d.items()));
\* the model fixes one total order on key names
RECURSIVE sorted_keys(_)
sorted_keys(keys) ==
    IF keys = {} THEN <<>>
    ELSE LET k == CHOOSE x \in keys : TRUE
         IN  <<k>> \o sorted_keys(keys \ {k})

\* plistlib.dump raises TypeError for None and ValueError for a string
\* holding a control character
RECURSIVE dump_raises(_)
dump_raises(value) ==
    CASE value.kind = "none" -> TRUE
      [] value.kind = "str" ->
           \E i \in DOMAIN value.v : value.v[i] \in ControlChars
      [] value.kind = "list" ->
           \E i \in DOMAIN value.v : dump_raises(value.v[i])
      [] value.kind = "dict" ->
           \E k \in DOMAIN value.v : dump_raises(value.v[k])
      [] OTHER -> FALSE

\* _PlistWriter.write_value
RECURSIVE write_value(_)
write_value(value) ==
    CASE value.kind = "str" ->
           [tag |-> "string", val |-> _escape(value.v)]
      [] value.kind = "bool" ->
           [tag |-> IF value.v THEN "true" ELSE "false", val |-> <<>>]
      [] value.kind = "int" ->
           [tag |-> "integer", val |-> value.v]
      [] value.kind = "list" ->
           [tag |-> "array",
            val |-> [i \in DOMAIN value.v |-> write_value(value.v[i])]]
      [] value.kind = "dict" ->
           LET keys == sorted_keys(DOMAIN value.v)
           IN  [tag |-> "dict",
                val |-> [i \in DOMAIN keys |->
                            <<keys[i], write_value(value.v[keys[i]])>>]]

\* _PlistParser: the value an element parses to
RECURSIVE parse_value(_)
parse_value(element) ==
    CASE element.tag = "string" -> PyStr(_unescape(element.val))
      [] element.tag = "true" -> PyBool(TRUE)
      [] element.tag = "false" -> PyBool(FALSE)
      [] element.tag = "integer" -> PyInt(element.val)
      [] element.tag = "array" ->
           PyList([i \in DOMAIN element.val |-> parse_value(element.val[i])])
      [] element.tag = "dict" ->
           PyDict([k \in {element.val[i][1] : i \in DOMAIN element.val} |->
                      parse_value(
                          element.val[CHOOSE i \in DOMAIN element.val :
                              /\ element.val[i][1] = k
                              /\ \A j \in DOMAIN element.val :
                                    element.val[j][1] = k => j <= i][2])])

\* what is left of a file whose writer raised part-way
partial_content == [tag |-> "partial", val |-> <<>>]

mobileconfig == ".mobileconfig"

\* save_profile (simple_profile_generator.py lines 251-260, the same method
\* in the other generator classes): the name gets the extension when it
\* lacks it, and the document is written with plistlib.dump
save_profile(doc, filename) ==
    [name |-> IF filename # <<>> /\ filename[Len(filename)] = mobileconfig
              THEN filename ELSE filename \o <<mobileconfig>>,
     content |-> IF dump_raises(doc) THEN partial_content
                 ELSE write_value(doc)]

\* plistlib.load(f) in validate_profile (profile_validator.py lines 26-27)
plistlib_load(file) == parse_value(file.content)

----------------------------------------------------------------------------
(* Builder calls and GUI handlers as actions *)

MaxClickable == 1

NoDoc == PyNone

\* before the reverse lookup of generate_blocking_profile has run
NoLookup == [selected_bundles |-> <<>>, app_names |-> <<>>, done |-> FALSE]

\* before validate_all_profiles has run
NoScan ==
    [directory |-> <<>>, results |-> <<>>, pc |-> "idle",
     valid_count |-> 0, total_count |-> 0]

\* no push request
NoResponse == "none"

\* no call of send_profile_to_device
NoSend ==
    [called |-> FALSE, removal |-> FALSE, path |-> "none", status |-> "none",
     temp_created |-> FALSE, temp_exists |-> FALSE,
     cmdr |-> FALSE, enqueue |-> FALSE]

\* before a focus mode has been converted
NoFocus ==
    [generator |-> "none", mode_name |-> <<>>, app_names |-> <<>>,
     bundle_ids |-> <<>>, made |-> FALSE, done |-> FALSE]

\* before a setup script has started
NoSetup ==
    [script |-> "none", mac_ip |-> <<>>, pc |-> "idle", scep |-> "none",
     nanomdm |-> "none", steps |-> <<>>, failed |-> "none",
     result |-> "none"]

\* before validate_profile has been given a path
NoPathCheck ==
    [entry |-> "missing", content |-> NoFile.content, pc |-> "idle",
     verdict |-> "none", checked |-> FALSE]

NoInputs == [blocked_apps |-> <<>>, profile_name |-> <<>>]

Inputs(blocked_apps, profile_name) ==
    [blocked_apps |-> blocked_apps, profile_name |-> profile_name]

\* the PayloadUUID values of a document, compared case-insensitively
uuids_of(doc) ==
    IF doc.kind # "dict" THEN {}
    ELSE (IF Has(doc, "PayloadUUID")
          THEN {lower(doc.v["PayloadUUID"].v)} ELSE {})
         \cup {lower(payloads_of(doc)[i].v["PayloadUUID"].v) :
                 i \in {j \in DOMAIN payloads_of(doc) :
                          /\ payloads_of(doc)[j].kind = "dict"
                          /\ Has(payloads_of(doc)[j], "PayloadUUID")}}

\* argument samples of the builder calls
instagram == <<"com.burbn.instagram">>

youtube == <<"com.google.ios.youtube">>

BlockLists ==
    {<<>>, <<instagram>>, <<instagram, youtube>>,
     <<youtube, <<"com.zhiliaoapp.musically">>, <<"com.reddit.Reddit">>,
       <<"com.spotify.client">> >>,
     << <<"org.example.unlisted">> >>}

ProfileNames ==
    {<<"S", "t", "u", "d", "y", " ", "M", "o", "d", "e">>,
     <<"W", "i", "n", "d", "-", "D", "o", "w", "n">>,
     <<"D", "e", "e", "p", "\r", "W", "o", "r", "k">>}

WebsiteLists ==
    {<<>>, << <<"instagram.com">>, <<"www.instagram.com">>,
              <<"m.instagram.com">>, <<"youtu.be">> >>}

DeviceNames == {<<"iPhone">>}

ServerUrls == {<<"http://127.0.0.1:", "9000">>, <<"https://mdm.example.org">>}

ScepUrls == {<<"http://127.0.0.1:", "8080">>}

PushTopics == {placeholder_topic}

MacIps == {<<"192.168.1.20">>, <<"127.0.0.1">>}

DeviceEntries == {<<>>, <<" ">>, <<" ", "device-1", " ">>}

Answers == {"200", "500", "exception"}

\* a builder returned doc, having drawn `draws` tokens
Produce(doc, op, ins, draws) ==
    /\ profile' = doc
    /\ origin' = op
    /\ inputs' = ins
    /\ issued' = issued \cup uuids_of(profile)
    /\ uuid_next' = uuid_next + draws
    /\ report' = NoReport
    /\ edits' = edits
    /\ saved' = NoFile

CanDraw(draws) == uuid_next + draws - 1 <= MaxUuid

CreateSimpleAppBlockingProfile ==
    /\ variant = "library" /\ CanDraw(2)
    /\ \E blocked_apps \in BlockLists, profile_name \in ProfileNames :
         Produce(create_simple_app_blocking_profile(blocked_apps, profile_name,
                                                    uuid_next),
                 "create_simple_app_blocking_profile",
                 Inputs(blocked_apps, profile_name), 2)
    /\ UNCHANGED <<gui_vars, run_vars>>

CreateWebBlockingProfile ==
    /\ variant = "library" /\ CanDraw(2)
    /\ \E blocked_websites \in WebsiteLists, profile_name \in ProfileNames :
         Produce(create_web_blocking_profile(blocked_websites, profile_name,
                                             uuid_next),
                 "create_web_blocking_profile",
                 Inputs(<<>>, profile_name), 2)
    /\ UNCHANGED <<gui_vars, run_vars>>

CreateRemovalProfile ==
    /\ variant = "library" /\ CanDraw(1)
    /\ Produce(create_removal_profile(uuid_next), "create_removal_profile",
               NoInputs, 1)
    /\ UNCHANGED <<gui_vars, run_vars>>

CreateComboProfile ==
    /\ variant = "library" /\ CanDraw(3)
    /\ \E blocked_apps \in BlockLists, profile_name \in ProfileNames :
         Produce(create_combo_profile(blocked_apps, profile_name, uuid_next),
                 "create_combo_profile",
                 Inputs(blocked_apps, profile_name), 3)
    /\ UNCHANGED <<gui_vars, run_vars>>

CreateAppBlockingProfileSupervised ==
    /\ variant = "library" /\ CanDraw(4)
    /\ \E blocked_apps \in BlockLists, profile_name \in ProfileNames :
         Produce(create_app_blocking_profile_supervised(
                     blocked_apps, profile_name, uuid_next),
                 "create_app_blocking_profile_supervised",
                 Inputs(blocked_apps, profile_name), 4)
    /\ UNCHANGED <<gui_vars, run_vars>>

CreateUnblockProfile ==
    /\ variant = "library" /\ CanDraw(1)
    /\ Produce(create_unblock_profile(uuid_next), "create_unblock_profile",
               NoInputs, 1)
    /\ UNCHANGED <<gui_vars, run_vars>>

CreateAppBlockingProfileBundled ==
    /\ variant = "library" /\ CanDraw(3)
    /\ \E blocked_apps \in BlockLists, profile_name \in ProfileNames :
         Produce(create_app_blocking_profile_bundled(
                     blocked_apps, profile_name, uuid_next),
                 "create_app_blocking_profile_bundled",
                 Inputs(blocked_apps, profile_name), 3)
    /\ UNCHANGED <<gui_vars, run_vars>>

CreateAppBlockingProfileNanomdm ==
    /\ variant = "library" /\ CanDraw(2)
    /\ \E blocked_apps \in BlockLists, profile_name \in ProfileNames :
         Produce(create_app_blocking_profile_nanomdm(
                     blocked_apps, profile_name, uuid_next),
                 "create_app_blocking_profile_nanomdm",
                 Inputs(blocked_apps, profile_name), 2)
    /\ UNCHANGED <<gui_vars, run_vars>>

\* the documents made by the generator classes, which have save_profile
GeneratorOrigins ==
    {"create_simple_app_blocking_profile", "create_web_blocking_profile",
     "create_removal_profile", "create_combo_profile",
     "create_app_blocking_profile_supervised", "create_unblock_profile",
     "create_app_blocking_profile_bundled",
     "create_app_blocking_profile_nanomdm"}

FileNames == {<<"focus_mode">>, <<"focus_mode", mobileconfig>>}

\* generator.save_profile(profile, filename)
SaveProfile ==
    /\ variant = "library" /\ origin \in GeneratorOrigins
    /\ \E filename \in FileNames : saved' = save_profile(profile, filename)
    /\ UNCHANGED <<profile, report, origin, edits, gen_vars, gui_vars,
                   run_vars>>

CreateEnrollmentProfileSetupIphone ==
    /\ variant = "library" /\ CanDraw(3)
    /\ \E nanomdm_url \in ServerUrls, scep_url \in ScepUrls,
          push_topic \in PushTopics :
         Produce(create_enrollment_profile_setup_iphone(
                     nanomdm_url, scep_url, push_topic, uuid_next),
                 "create_enrollment_profile_setup_iphone", NoInputs, 3)
    /\ UNCHANGED <<gui_vars, run_vars>>

CreateEnrollmentProfileFixedSetup ==
    /\ variant = "library" /\ CanDraw(3)
    /\ \E mac_ip \in MacIps :
         Produce(create_enrollment_profile_fixed_setup(mac_ip, uuid_next),
                 "create_enrollment_profile_fixed_setup", NoInputs, 3)
    /\ UNCHANGED <<gui_vars, run_vars>>

CreateEnrollmentProfileManualSetup ==
    /\ variant = "library" /\ CanDraw(3)
    /\ Produce(create_enrollment_profile_manual_setup(uuid_next),
               "create_enrollment_profile_manual_setup", NoInputs, 3)
    /\ UNCHANGED <<gui_vars, run_vars>>

\* hideaway_bundled.py lines 234-303; in the GUI it is what setup_device
\* (lines 462-477) runs through iPhoneSetup().run_full_setup()
CreateEnrollmentProfileBundled ==
    /\ variant \in {"library", "bundled"} /\ CanDraw(3)
    /\ \E device_name \in DeviceNames :
         Produce(create_enrollment_profile_bundled(device_name, uuid_next),
                 "create_enrollment_profile_bundled", NoInputs, 3)
    /\ UNCHANGED <<gui_vars, run_vars>>

\* hideaway_nanomdm_fixed.py lines 174-239; in the GUI it is what
\* setup_device (lines 406-421) runs through iPhoneSetup().run_full_setup()
CreateEnrollmentProfileNanomdm ==
    /\ variant \in {"library", "nanomdm"} /\ CanDraw(3)
    /\ \E device_name \in DeviceNames :
         Produce(create_enrollment_profile_nanomdm(device_name, uuid_next),
                 "create_enrollment_profile_nanomdm", NoInputs, 3)
    /\ UNCHANGED <<gui_vars, run_vars>>

GuiVariants == {"controller", "bundled", "nanomdm"}

Checked == selected_bundles_of(available_apps_of(variant), app_vars)

\* a click on one of the checkbuttons bound to self.app_vars (the first
\* MaxClickable rows of the list)
ClickCheckbox ==
    /\ variant \in GuiVariants
    /\ \E i \in 1..MaxClickable :
         LET b == available_apps_of(variant)[i].bundle
         IN  app_vars' = [app_vars EXCEPT ![b] = ~app_vars[b]]
    /\ UNCHANGED <<doc_vars, gen_vars, run_vars, variant, device_id,
                   is_blocking, control_button, self_available_apps>>
    /\ sending' = NoSend
    /\ response' = NoResponse

\* select_social_media: identical in the three programs
select_social_media ==
    /\ variant \in GuiVariants
    /\ app_vars' = [b \in DOMAIN app_vars |->
                      IF \E i \in DOMAIN social_apps : social_apps[i] = b
                      THEN TRUE ELSE app_vars[b]]
    /\ UNCHANGED <<doc_vars, gen_vars, run_vars, variant, device_id,
                   is_blocking, control_button, self_available_apps>>
    /\ sending' = NoSend
    /\ response' = NoResponse

select_all ==
    /\ variant \in GuiVariants
    /\ app_vars' = [b \in DOMAIN app_vars |-> TRUE]
    /\ UNCHANGED <<doc_vars, gen_vars, run_vars, variant, device_id,
                   is_blocking, control_button, self_available_apps>>
    /\ sending' = NoSend
    /\ response' = NoResponse

\* clear_all emptying the table along with the checkboxes
clear_all_and_table ==
    /\ variant \in GuiVariants
    /\ app_vars' = [b \in DOMAIN app_vars |-> FALSE]
    /\ self_available_apps' = <<>>
    /\ UNCHANGED <<doc_vars, gen_vars, run_vars, variant, device_id,
                   is_blocking, control_button>>
    /\ sending' = NoSend
    /\ response' = NoResponse

clear_all ==
    /\ variant \in GuiVariants
    /\ app_vars' = [b \in DOMAIN app_vars |-> FALSE]
    /\ UNCHANGED <<doc_vars, gen_vars, run_vars, variant, device_id,
                   is_blocking, control_button, self_available_apps>>
    /\ sending' = NoSend
    /\ response' = NoResponse

\* test_connection assigning the entry whatever the push answered
test_connection_any_answer ==
    /\ variant \in {"controller", "bundled"}
    /\ \E entry \in DeviceEntries, answer \in Answers :
         LET device == strip(entry)
         IN  IF device = <<>>
             THEN /\ response' = NoResponse
                  /\ device_id' = device_id
             ELSE /\ response' = answer
                  /\ device_id' = device
    /\ UNCHANGED <<doc_vars, gen_vars, run_vars, variant, app_vars,
                   is_blocking, control_button, self_available_apps>>
    /\ sending' = NoSend

\* test_connection of hideaway_controller.py (lines 202-229) and of
\* hideaway_bundled.py (lines 481-508), which are the same code: a blank
\* entry returns before any request, and device_id is assigned only when
\* the push answered 200
test_connection ==
    /\ variant \in {"controller", "bundled"}
    /\ \E entry \in DeviceEntries, answer \in Answers :
         LET device == strip(entry)
         IN  IF device = <<>>
             THEN /\ response' = NoResponse
                  /\ device_id' = device_id
             ELSE /\ response' = answer
                  /\ device_id' = IF answer = "200" THEN device
                                  ELSE device_id
    /\ UNCHANGED <<doc_vars, gen_vars, run_vars, variant, app_vars,
                   is_blocking, control_button, self_available_apps>>
    /\ sending' = NoSend

\* hideaway_nanomdm_fixed.py lines 424-462: a blank entry, a non-200
\* answer and an exception all fall back to the demo device
test_connection_nanomdm ==
    /\ variant = "nanomdm"
    /\ \E entry \in DeviceEntries, answer \in Answers :
         LET device == strip(entry)
         IN  IF device = <<>>
             THEN /\ response' = NoResponse
                  /\ device_id' = demo_device
             ELSE /\ response' = answer
                  /\ device_id' = IF answer = "200" THEN device
                                  ELSE demo_device
    /\ UNCHANGED <<doc_vars, gen_vars, run_vars, variant, app_vars,
                   is_blocking, control_button, self_available_apps>>
    /\ sending' = NoSend

\* a direct call of generate_blocking_profile(block_apps) on the controller
\* object; it raises before any token is drawn when nothing is selected
GenerateBlockingProfile ==
    /\ variant \in GuiVariants
    /\ \E block_apps \in BOOLEAN :
         IF generate_raises(Checked, block_apps)
         THEN Produce(NoDoc, "generate_blocking_profile raised", NoInputs, 0)
         ELSE /\ CanDraw(generate_draws(variant, block_apps))
              /\ Produce(generate_blocking_profile(variant, Checked, block_apps,
                                                   uuid_next),
                         IF block_apps THEN "generate_blocking_profile(True)"
                         ELSE "generate_blocking_profile(False)",
                         IF block_apps THEN Inputs(Checked, <<>>)
                         ELSE NoInputs,
                         generate_draws(variant, block_apps))
    /\ sending' = NoSend
    /\ response' = NoResponse
    /\ UNCHANGED <<run_vars, variant, app_vars, device_id, is_blocking,
                   control_button, self_available_apps>>

\* how far send_profile_to_device of hideaway_controller.py gets once the
\* temporary file is written (lines 308-332)
ControllerSendOutcomes ==
    {"sent", "Command generation failed", "Failed to send profile",
     "subprocess exception", "request exception"}

\* profile_content["PayloadContent"] == []
no_payloads(doc) ==
    /\ doc.kind = "dict"
    /\ Has(doc, "PayloadContent")
    /\ doc.v["PayloadContent"] = PyList(<<>>)

Sent(doc, path, status, temp_created, temp_exists, cmdr, enqueue) ==
    [called |-> TRUE, removal |-> no_payloads(doc), path |-> path,
     status |-> status,
     temp_created |-> temp_created, temp_exists |-> temp_exists,
     cmdr |-> cmdr, enqueue |-> enqueue]

\* the send without its `finally: os.unlink(temp_profile_path)`
send_profile_to_device_controller_no_unlink(device, doc, outcome) ==
    IF device = <<>>
    THEN Sent(doc, "No device connected", "raised", FALSE, FALSE, FALSE, FALSE)
    ELSE IF outcome = "sent"
    THEN Sent(doc, outcome, "returned", TRUE, TRUE, TRUE, TRUE)
    ELSE IF outcome \in {"Command generation failed", "subprocess exception"}
    THEN Sent(doc, outcome, "raised", TRUE, TRUE, TRUE, FALSE)
    ELSE Sent(doc, outcome, "raised", TRUE, TRUE, TRUE, TRUE)

\* hideaway_controller.py lines 295-332
send_profile_to_device_controller(device, doc, outcome) ==
    IF device = <<>>
    THEN Sent(doc, "No device connected", "raised", FALSE, FALSE, FALSE, FALSE)
    ELSE IF dump_raises(doc)
    THEN \* plistlib.dump raises inside the `with`, before the `try`
         Sent(doc, "plistlib.dump raised", "raised", TRUE, TRUE, FALSE, FALSE)
    ELSE IF outcome = "sent"
    THEN Sent(doc, outcome, "returned", TRUE, FALSE, TRUE, TRUE)
    ELSE IF outcome \in {"Command generation failed", "subprocess exception"}
    THEN Sent(doc, outcome, "raised", TRUE, FALSE, TRUE, FALSE)
    ELSE Sent(doc, outcome, "raised", TRUE, FALSE, TRUE, TRUE)

\* hideaway_controller.py lines 334-379, with generate_blocking_profile
\* and send_profile_to_device (lines 295-332) inlined; the unblock branch
\* builds its document and sends nothing
toggle_blocking_controller ==
    /\ variant = "controller"
    /\ response' = NoResponse
    /\ IF device_id = <<>> \/ selected_count_of(available_apps, app_vars) = 0
       THEN /\ UNCHANGED <<doc_vars, gen_vars, is_blocking, control_button>>
            /\ sending' = NoSend
       ELSE IF ~is_blocking
       THEN /\ CanDraw(2)
            /\ Produce(generate_blocking_profile_controller(Checked, TRUE,
                                                            uuid_next),
                       "toggle_blocking block", Inputs(Checked, <<>>), 2)
            /\ \E outcome \in ControllerSendOutcomes :
                 /\ sending' = send_profile_to_device_controller(
                                   device_id, profile', outcome)
                 /\ IF sending'.status = "returned"
                    THEN /\ is_blocking' = TRUE
                         /\ control_button' = UNBLOCK_APPS
                    ELSE UNCHANGED <<is_blocking, control_button>>
       ELSE /\ CanDraw(1)
            /\ Produce(toggle_unblock_profile(uuid_next),
                       "toggle_blocking unblock", NoInputs, 1)
            /\ sending' = NoSend
            /\ is_blocking' = FALSE
            /\ control_button' = BLOCK_APPS
    /\ UNCHANGED <<variant, app_vars, device_id, self_available_apps,
                   run_vars>>

BundledSendOutcomes == {"saved_to_desktop", "exception"}

\* hideaway_bundled.py lines 547-563
send_profile_to_device_bundled(device, doc, outcome) ==
    IF device = <<>>
    THEN Sent(doc, "No device connected", "raised", FALSE, FALSE, FALSE, FALSE)
    ELSE IF dump_raises(doc)
    THEN Sent(doc, "plistlib.dump raised", "raised", FALSE, FALSE, FALSE, FALSE)
    ELSE IF outcome = "exception"
    THEN Sent(doc, outcome, "raised", FALSE, FALSE, FALSE, FALSE)
    ELSE Sent(doc, outcome, "saved_to_desktop", FALSE, FALSE, FALSE, FALSE)

\* hideaway_bundled.py lines 565-601, with generate_blocking_profile and
\* send_profile_to_device (lines 547-563) inlined
toggle_blocking_bundled ==
    /\ variant = "bundled"
    /\ response' = NoResponse
    /\ IF device_id = <<>> \/ selected_count_of(app_bundles, app_vars) = 0
       THEN /\ UNCHANGED <<doc_vars, gen_vars, is_blocking, control_button>>
            /\ sending' = NoSend
       ELSE /\ CanDraw(generate_draws("bundled", ~is_blocking))
            /\ Produce(generate_blocking_profile_bundled(Checked, ~is_blocking,
                                                         uuid_next),
                       IF is_blocking THEN "toggle_blocking unblock"
                       ELSE "toggle_blocking block",
                       IF is_blocking THEN NoInputs
                       ELSE Inputs(Checked, <<>>),
                       generate_draws("bundled", ~is_blocking))
            /\ \E outcome \in BundledSendOutcomes :
                 /\ sending' = send_profile_to_device_bundled(
                                   device_id, profile', outcome)
                 /\ IF sending'.status = "saved_to_desktop"
                    THEN /\ is_blocking' = ~is_blocking
                         /\ control_button' =
                              (IF is_blocking THEN BLOCK_APPS ELSE UNBLOCK_APPS)
                    ELSE UNCHANGED <<is_blocking, control_button>>
    /\ UNCHANGED <<variant, app_vars, device_id, self_available_apps,
                   run_vars>>

\* how far send_profile_to_device of hideaway_nanomdm_fixed.py gets: the
\* Desktop file could not be written, or it was written and the nanomdm
\* path was skipped (demo device), or taken and failed or succeeded
NanomdmSendOutcomes(device) ==
    IF device = demo_device THEN {"write failed", "demo"}
    ELSE {"write failed", "tools not found", "command generation failed",
          "subprocess exception", "enqueue refused", "request exception",
          "enqueued"}

\* the send without its try/except around the nanomdm path
send_profile_to_device_nanomdm_uncaught(device, doc, outcome) ==
    IF device = <<>>
    THEN Sent(doc, "No device connected", "raised", FALSE, FALSE, FALSE, FALSE)
    ELSE IF outcome = "write failed"
    THEN Sent(doc, outcome, "raised", FALSE, FALSE, FALSE, FALSE)
    ELSE IF device = demo_device \/ outcome = "tools not found"
    THEN Sent(doc, outcome, "saved_to_desktop", FALSE, FALSE, FALSE, FALSE)
    ELSE IF outcome = "subprocess exception"
    THEN Sent(doc, outcome, "raised", FALSE, FALSE, TRUE, FALSE)
    ELSE IF outcome = "command generation failed"
    THEN Sent(doc, outcome, "saved_to_desktop", FALSE, FALSE, TRUE, FALSE)
    ELSE IF outcome = "request exception"
    THEN Sent(doc, outcome, "raised", FALSE, FALSE, TRUE, TRUE)
    ELSE IF outcome = "enqueue refused"
    THEN Sent(doc, outcome, "saved_to_desktop", FALSE, FALSE, TRUE, TRUE)
    ELSE Sent(doc, outcome, "sent_via_nanomdm", FALSE, FALSE, TRUE, TRUE)

\* hideaway_nanomdm_fixed.py lines 501-549
send_profile_to_device_nanomdm(device, doc, outcome) ==
    IF device = <<>>
    THEN Sent(doc, "No device connected", "raised", FALSE, FALSE, FALSE, FALSE)
    ELSE IF dump_raises(doc)
    THEN Sent(doc, "plistlib.dump raised", "raised", FALSE, FALSE, FALSE, FALSE)
    ELSE IF outcome = "write failed"
    THEN Sent(doc, outcome, "raised", FALSE, FALSE, FALSE, FALSE)
    ELSE IF device = demo_device \/ outcome = "tools not found"
    THEN Sent(doc, outcome, "saved_to_desktop", FALSE, FALSE, FALSE, FALSE)
    ELSE IF outcome \in {"command generation failed", "subprocess exception"}
    THEN Sent(doc, outcome, "saved_to_desktop", FALSE, FALSE, TRUE, FALSE)
    ELSE IF outcome \in {"enqueue refused", "request exception"}
    THEN Sent(doc, outcome, "saved_to_desktop", FALSE, FALSE, TRUE, TRUE)
    ELSE Sent(doc, outcome, "sent_via_nanomdm", FALSE, FALSE, TRUE, TRUE)

\* hideaway_nanomdm_fixed.py lines 551-593, with generate_blocking_profile
\* and send_profile_to_device (lines 501-549) inlined
toggle_blocking_nanomdm ==
    /\ variant = "nanomdm"
    /\ response' = NoResponse
    /\ IF selected_count_of(app_bundles, app_vars) = 0
       THEN /\ UNCHANGED <<doc_vars, gen_vars, is_blocking, control_button>>
            /\ sending' = NoSend
       ELSE /\ CanDraw(2)
            /\ Produce(generate_blocking_profile_nanomdm(Checked, ~is_blocking,
                                                         uuid_next),
                       IF is_blocking THEN "toggle_blocking unblock"
                       ELSE "toggle_blocking block",
                       IF is_blocking THEN NoInputs
                       ELSE Inputs(Checked, <<>>), 2)
            /\ \E outcome \in NanomdmSendOutcomes(device_id) :
                 /\ sending' = send_profile_to_device_nanomdm(
                                   device_id, profile', outcome)
                 /\ IF sending'.status = "raised"
                    THEN UNCHANGED <<is_blocking, control_button>>
                    ELSE /\ is_blocking' = ~is_blocking
                         /\ control_button' =
                              (IF is_blocking THEN BLOCK_APPS
                               ELSE UNBLOCK_APPS)
    /\ UNCHANGED <<variant, app_vars, device_id, self_available_apps,
                   run_vars>>

\* profile_validator.py validate_profile on the parsed file
Validate ==
    /\ profile # NoDoc
    /\ report = NoReport
    /\ report' = validate_profile(profile)
    /\ UNCHANGED <<profile, origin, edits, saved, gen_vars, gui_vars,
                   run_vars>>

----------------------------------------------------------------------------
(* One process of the repository: a script using the generator classes, or
   one of the three GUI programs *)

Init ==
    /\ variant \in {"library"} \cup GuiVariants
    /\ profile = NoDoc
    /\ report = NoReport
    /\ origin = "none"
    /\ edits = 0
    /\ uuid_next = 1
    /\ issued = {}
    /\ inputs = NoInputs
    /\ app_vars =
         IF variant = "library" THEN <<>>
         ELSE [b \in {available_apps_of(variant)[i].bundle :
                        i \in DOMAIN available_apps_of(variant)} |-> FALSE]
    /\ device_id = <<>>
    /\ is_blocking = FALSE
    /\ control_button = BLOCK_APPS
    /\ sending = NoSend
    /\ response = NoResponse
    /\ saved = NoFile
    /\ self_available_apps =
         (IF variant = "library" THEN app_bundles
          ELSE available_apps_of(variant))
    /\ lookup = NoLookup
    /\ scan = NoScan
    /\ focus = NoFocus
    /\ setup = NoSetup
    /\ path_check = NoPathCheck

Next ==
    \/ CreateSimpleAppBlockingProfile
    \/ CreateWebBlockingProfile
    \/ CreateRemovalProfile
    \/ CreateComboProfile
    \/ CreateAppBlockingProfileSupervised
    \/ CreateUnblockProfile
    \/ CreateAppBlockingProfileBundled
    \/ CreateAppBlockingProfileNanomdm
    \/ SaveProfile
    \/ CreateEnrollmentProfileSetupIphone
    \/ CreateEnrollmentProfileFixedSetup
    \/ CreateEnrollmentProfileManualSetup
    \/ CreateEnrollmentProfileBundled
    \/ CreateEnrollmentProfileNanomdm
    \/ ClickCheckbox
    \/ select_social_media
    \/ select_all
    \/ clear_all
    \/ test_connection
    \/ test_connection_nanomdm
    \/ GenerateBlockingProfile
    \/ toggle_blocking_controller
    \/ toggle_blocking_bundled
    \/ toggle_blocking_nanomdm
    \/ Validate

Spec == Init /\ [][Next]_vars

----------------------------------------------------------------------------
(* Hand-built documents: the validator's own test profile, then edited *)

MaxEdits == 2

MaxPayloads == 2

\* profile_validator.py create_minimal_test_profile
test_payload ==
    PyDict([PayloadDisplayName |-> S("Test Restriction"),
            PayloadIdentifier |-> S("com.test.restriction"),
            PayloadType |-> applicationaccess,
            PayloadUUID |-> uuid4(1),
            PayloadVersion |-> PyInt(1),
            blacklistedAppBundleIDs |-> PyList(<<S("com.burbn.instagram")>>)])

create_minimal_test_profile ==
    PyDict([PayloadContent |-> PyList(<<test_payload>>),
            PayloadDescription |-> S("Test profile for validation"),
            PayloadDisplayName |-> S("Test Profile"),
            PayloadIdentifier |-> S("com.test.profile"),
            PayloadOrganization |-> S("Test"),
            PayloadRemovalDisallowed |-> PyBool(FALSE),
            PayloadType |-> Configuration,
            PayloadUUID |-> uuid4(2),
            PayloadVersion |-> PyInt(1)])

\* values a hand-built file can hold in place of the expected ones
RootTypeSamples == {S("Profile"), PyInt(1)}

VersionSamples == {PyInt(2), PyBool(TRUE), S("1")}

ContentSamples ==
    {PyInt(5), PyBool(TRUE), S("payloads"),
     PyDict([PayloadType |-> applicationaccess])}

PayloadSamples ==
    {PyInt(7), S("payload"), test_payload,
     PyDict([PayloadDisplayName |-> S("Custom"),
             PayloadIdentifier |-> S("org.example.custom"),
             PayloadType |-> PyStr(<<"org.example.", "custom">>),
             PayloadUUID |-> uuid4(3),
             PayloadVersion |-> PyInt(1)])}

PayloadTypeSamples ==
    {applicationaccess, PyStr(<<"com.apple.", "webcontent-filter">>),
     PyStr(<<"com.apple.", "unknown.kind">>),
     PyStr(<<"org.example.", "custom">>), EmptyStr, PyInt(0), PyInt(5)}

BlacklistSamples ==
    {PyList(<<>>),
     PyList(<<S("com.burbn.instagram"), S("com.google.ios.youtube"),
              S("com.zhiliaoapp.musically"), S("com.facebook.Facebook")>>),
     S("com.burbn.instagram"), PyInt(5),
     PyDict([bundle |-> S("com.burbn.instagram")])}

Edited(p) ==
    /\ p # profile
    /\ profile' = p
    /\ origin' = "hand"
    /\ edits' = edits + 1
    /\ report' = NoReport
    /\ saved' = NoFile
    /\ UNCHANGED <<gen_vars, gui_vars, run_vars>>

DeleteRootField ==
    \E f \in required_fields \cap DOMAIN profile.v :
        /\ edits < MaxEdits
        /\ Edited(DictDel(profile, f))

SetRootType ==
    \E val \in RootTypeSamples :
        /\ edits < MaxEdits
        /\ Edited(DictSet(profile, "PayloadType", val))

SetRootVersion ==
    \E val \in VersionSamples :
        /\ edits < MaxEdits
        /\ Edited(DictSet(profile, "PayloadVersion", val))

SetRootContent ==
    \E val \in ContentSamples :
        /\ edits < MaxEdits
        /\ Edited(DictSet(profile, "PayloadContent", val))

AppendPayload ==
    /\ edits < MaxEdits
    /\ Has(profile, "PayloadContent")
    /\ profile.v["PayloadContent"].kind = "list"
    /\ Len(payloads_of(profile)) < MaxPayloads
    /\ \E payload \in PayloadSamples :
          Edited(DictSet(profile, "PayloadContent",
                         PyList(Append(payloads_of(profile), payload))))

DeletePayloadField ==
    \E i \in DOMAIN payloads_of(profile) :
        /\ edits < MaxEdits
        /\ payloads_of(profile)[i].kind = "dict"
        /\ \E f \in payload_required \cap DOMAIN payloads_of(profile)[i].v :
              Edited(with_payload(profile, i,
                                  DictDel(payloads_of(profile)[i], f)))

SetPayloadType ==
    \E i \in DOMAIN payloads_of(profile) :
        /\ edits < MaxEdits
        /\ payloads_of(profile)[i].kind = "dict"
        /\ Has(payloads_of(profile)[i], "PayloadType")
        /\ \E val \in PayloadTypeSamples :
              Edited(with_payload(profile, i,
                       DictSet(payloads_of(profile)[i], "PayloadType", val)))

SetBlacklist ==
    \E i \in DOMAIN payloads_of(profile) :
        /\ edits < MaxEdits
        /\ payloads_of(profile)[i].kind = "dict"
        /\ Has(payloads_of(profile)[i], "blacklistedAppBundleIDs")
        /\ \E val \in BlacklistSamples :
              Edited(with_payload(profile, i,
                       DictSet(payloads_of(profile)[i],
                               "blacklistedAppBundleIDs", val)))

ValidatorInit ==
    /\ profile = create_minimal_test_profile
    /\ origin = "create_minimal_test_profile"
    /\ edits = 0
    /\ report = NoReport
    /\ uuid_next = 4
    /\ issued = {}
    /\ inputs = NoInputs
    /\ variant = "profile_validator"
    /\ app_vars = <<>>
    /\ device_id = <<>>
    /\ is_blocking = FALSE
    /\ control_button = BLOCK_APPS
    /\ sending = NoSend
    /\ response = NoResponse
    /\ saved = NoFile
    /\ self_available_apps = <<>>
    /\ lookup = NoLookup
    /\ scan = NoScan
    /\ focus = NoFocus
    /\ setup = NoSetup
    /\ path_check = NoPathCheck

ValidatorNext ==
    \/ DeleteRootField
    \/ SetRootType
    \/ SetRootVersion
    \/ SetRootContent
    \/ AppendPayload
    \/ DeletePayloadField
    \/ SetPayloadType
    \/ SetBlacklist
    \/ Validate

ValidatorSpec == ValidatorInit /\ [][ValidatorNext]_vars

----------------------------------------------------------------------------
(* profile_validator.py validate_all_profiles over one directory *)

MaxFiles == 3

\* results[name] = verdict on a dict kept in insertion order
dict_put(results, name, verdict) ==
    IF \E i \in DOMAIN results : results[i].name = name
    THEN [i \in DOMAIN results |->
             IF results[i].name = name
             THEN [name |-> name, verdict |-> verdict] ELSE results[i]]
    ELSE Append(results, [name |-> name, verdict |-> verdict])

\* lines 143-146: the loop, from file i on; an exception escaping
\* validate_profile ends it
RECURSIVE scan_files(_, _, _)
scan_files(profile_files, i, results) ==
    IF i > Len(profile_files) THEN [results |-> results, raised |-> FALSE]
    ELSE LET outcome == validate_profile(profile_files[i].doc)
         IN  IF outcome.result = "raise"
             THEN [results |-> results, raised |-> TRUE]
             ELSE scan_files(profile_files, i + 1,
                             dict_put(results, profile_files[i].name,
                                      outcome.result = "True"))

\* lines 133-157
validate_all_profiles(profile_files) ==
    IF profile_files = <<>>
    THEN [directory |-> profile_files, results |-> <<>>, pc |-> "no files",
          valid_count |-> 0, total_count |-> 0]
    ELSE LET run == scan_files(profile_files, 1, <<>>)
         IN  IF run.raised
             THEN [directory |-> profile_files, results |-> run.results,
                   pc |-> "raised", valid_count |-> 0, total_count |-> 0]
             ELSE [directory |-> profile_files, results |-> run.results,
                   pc |-> "done",
                   valid_count |->
                       Cardinality({i \in DOMAIN run.results :
                                       run.results[i].verdict}),
                   total_count |-> Len(run.results)]

\* documents a directory can hold: two written by the programs, two edited
\* by hand
DirectoryDocs ==
    {create_minimal_test_profile, create_removal_profile(3),
     DictDel(create_minimal_test_profile, "PayloadVersion"),
     DictSet(create_minimal_test_profile, "PayloadContent", PyInt(5))}

\* Path(directory).glob("*.mobileconfig"): the files in some order, their
\* names distinct
Directories ==
    UNION {{[i \in 1..n |->
               [name |-> <<"profile-", ToString(i), mobileconfig>>,
                doc |-> docs[i]]] : docs \in [1..n -> DirectoryDocs]} :
           n \in 0..MaxFiles}

ValidateAllProfiles ==
    /\ scan.pc = "idle"
    /\ scan' = validate_all_profiles(scan.directory)
    /\ UNCHANGED <<doc_vars, gen_vars, gui_vars, lookup, focus, setup,
                   path_check>>

DirectoryInit ==
    /\ scan \in {[NoScan EXCEPT !.directory = d] : d \in Directories}
    /\ profile = NoDoc
    /\ origin = "none"
    /\ edits = 0
    /\ report = NoReport
    /\ saved = NoFile
    /\ uuid_next = 4
    /\ issued = {}
    /\ inputs = NoInputs
    /\ variant = "profile_validator"
    /\ app_vars = <<>>
    /\ device_id = <<>>
    /\ is_blocking = FALSE
    /\ control_button = BLOCK_APPS
    /\ sending = NoSend
    /\ response = NoResponse
    /\ self_available_apps = <<>>
    /\ lookup = NoLookup
    /\ focus = NoFocus
    /\ setup = NoSetup
    /\ path_check = NoPathCheck

DirectoryNext == ValidateAllProfiles

DirectorySpec == DirectoryInit /\ [][DirectoryNext]_vars

----------------------------------------------------------------------------
(* validate_profile(profile_path) of profile_validator.py from the path on:
   lines 19-30 decide whether there is a document to check at all *)

\* what can be found at profile_path
PathEntries == {"missing", "file", "truncated file", "directory",
                "unreadable file"}

\* open(profile_path, 'rb') raises IsADirectoryError or PermissionError
open_raises(entry) == entry \in {"directory", "unreadable file"}

\* plistlib.load raises on a file that holds no complete property list
load_raises(content) == content.tag \in {"none", "partial"}

\* the call without the try/except of lines 24-30
validate_profile_path_uncaught(at) ==
    IF at.entry = "missing"
    THEN [at EXCEPT !.pc = "File does not exist", !.verdict = "False"]
    ELSE IF open_raises(at.entry) \/ load_raises(at.content)
    THEN [at EXCEPT !.pc = "Failed to parse plist", !.verdict = "raise"]
    ELSE [at EXCEPT !.pc = "validated", !.checked = TRUE,
                    !.verdict = validate_profile(parse_value(at.content)).result]

\* profile_validator.py lines 14-131 on a path: lines 20-22, then lines
\* 24-30, then the field checks on the parsed document
validate_profile_path(at) ==
    IF at.entry = "missing"
    THEN [at EXCEPT !.pc = "File does not exist", !.verdict = "False"]
    ELSE IF open_raises(at.entry) \/ load_raises(at.content)
    THEN [at EXCEPT !.pc = "Failed to parse plist", !.verdict = "False"]
    ELSE [at EXCEPT !.pc = "validated", !.checked = TRUE,
                    !.verdict = validate_profile(parse_value(at.content)).result]

\* documents the programs of the repository write
PathDocs ==
    {create_minimal_test_profile, create_removal_profile(1),
     create_enrollment_profile_manual_setup(1)}
    \cup {create_enrollment_profile_fixed_setup(mac_ip, 1) : mac_ip \in MacIps}
    \cup {create_enrollment_profile_setup_iphone(nanomdm_url, scep_url,
                                                 placeholder_topic, 1) :
             nanomdm_url \in ServerUrls, scep_url \in ScepUrls}
    \cup {create_enrollment_profile_bundled(device_name, 1) :
             device_name \in DeviceNames}
    \cup {create_enrollment_profile_nanomdm(device_name, 1) :
             device_name \in DeviceNames}
    \cup {create_combo_profile(<<instagram>>, profile_name, 1) :
             profile_name \in ProfileNames}
    \cup {create_web_blocking_profile(blocked_websites, <<"Focus">>, 1) :
             blocked_websites \in WebsiteLists}
    \cup {create_unblock_profile(1)}
    \cup {create_simple_app_blocking_profile(<<instagram>>, profile_name, 1) :
             profile_name \in ProfileNames}
    \cup DirectoryDocs

\* something is put at profile_path before the call: the document in
\* memory written by plistlib.dump, a file cut short, a directory, or a
\* file the process may not read
PutAtPath ==
    /\ path_check.pc = "idle" /\ path_check.entry = "missing"
    /\ \E entry \in PathEntries \ {"missing"} :
         path_check' = [path_check EXCEPT
            !.entry = entry,
            !.content = IF entry = "file"
                        THEN save_profile(profile, <<"profile">>).content
                        ELSE IF entry = "truncated file"
                        THEN partial_content
                        ELSE NoFile.content]
    /\ UNCHANGED <<doc_vars, gen_vars, gui_vars, lookup, scan, focus, setup>>

ValidateProfilePath ==
    /\ path_check.pc = "idle"
    /\ path_check' = validate_profile_path(path_check)
    /\ report' = IF path_check'.checked
                 THEN validate_profile(parse_value(path_check.content))
                 ELSE NoReport
    /\ UNCHANGED <<profile, origin, edits, saved, gen_vars, gui_vars, lookup,
                   scan, focus, setup>>

PathInit ==
    /\ profile \in PathDocs
    /\ path_check = NoPathCheck
    /\ origin = "none"
    /\ edits = 0
    /\ report = NoReport
    /\ saved = NoFile
    /\ uuid_next = 4
    /\ issued = {}
    /\ inputs = NoInputs
    /\ variant = "profile_validator"
    /\ app_vars = <<>>
    /\ device_id = <<>>
    /\ is_blocking = FALSE
    /\ control_button = BLOCK_APPS
    /\ sending = NoSend
    /\ response = NoResponse
    /\ self_available_apps = <<>>
    /\ lookup = NoLookup
    /\ scan = NoScan
    /\ focus = NoFocus
    /\ setup = NoSetup

PathNext ==
    \/ PutAtPath
    \/ ValidateProfilePath

PathSpec == PathInit /\ [][PathNext]_vars

----------------------------------------------------------------------------
(* The reverse lookup of generate_blocking_profile on its own:
   hideaway_controller.py lines 244-250, hideaway_bundled.py lines 517-523 *)

MaxSelected == 4

\* a table in which two names carry one bundle id, which a dict allows
duplicated_apps ==
    <<[name |-> <<"I", "n", "s", "t", "a", "g", "r", "a", "m">>,
       bundle |-> <<"com.burbn.instagram">>],
      [name |-> <<"I", "G">>, bundle |-> <<"com.burbn.instagram">>],
      [name |-> <<"Y", "o", "u", "T", "u", "b", "e">>,
       bundle |-> <<"com.google.ios.youtube">>],
      [name |-> <<"Y", "T">>, bundle |-> <<"com.google.ios.youtube">>]>>

Catalogs == {available_apps, app_bundles, duplicated_apps}

LookupIds ==
    {<<"com.burbn.instagram">>, <<"com.google.ios.youtube">>,
     <<"com.example.unlisted">>}

Selections == UNION {[1..n -> LookupIds] : n \in 0..MaxSelected}

ReverseLookup ==
    /\ ~lookup.done
    /\ lookup' =
          [lookup EXCEPT
              !.app_names =
                  app_names_of(self_available_apps,
                               first(lookup.selected_bundles, 3)),
              !.done = TRUE]
    /\ UNCHANGED <<doc_vars, gen_vars, gui_vars, scan, focus, setup,
                   path_check>>

LookupInit ==
    /\ lookup \in {[NoLookup EXCEPT !.selected_bundles = s] : s \in Selections}
    /\ self_available_apps \in Catalogs
    /\ profile = NoDoc
    /\ origin = "none"
    /\ edits = 0
    /\ report = NoReport
    /\ saved = NoFile
    /\ uuid_next = 4
    /\ issued = {}
    /\ inputs = NoInputs
    /\ variant = "controller"
    /\ app_vars = <<>>
    /\ device_id = <<>>
    /\ is_blocking = FALSE
    /\ control_button = BLOCK_APPS
    /\ sending = NoSend
    /\ response = NoResponse
    /\ scan = NoScan
    /\ focus = NoFocus
    /\ setup = NoSetup
    /\ path_check = NoPathCheck

LookupNext == ReverseLookup

LookupSpec == LookupInit /\ [][LookupNext]_vars

----------------------------------------------------------------------------
(* Focus modes: one iteration of the loop over focus_modes in
   create_focus_modes / create_focus_profiles_set *)

MaxNames == 3

\* `if app_name in self.app_bundles`
in_app_bundles(apps, app_name) ==
    \E i \in DOMAIN apps : apps[i].name = app_name

\* self.app_bundles[app_name]
bundle_of(apps, app_name) ==
    apps[CHOOSE i \in DOMAIN apps : apps[i].name = app_name].bundle

\* the conversion keeping the names it does not know
RECURSIVE bundle_ids_keeping(_, _)
bundle_ids_keeping(apps, app_names) ==
    IF app_names = <<>> THEN <<>>
    ELSE <<(IF in_app_bundles(apps, Head(app_names))
            THEN bundle_of(apps, Head(app_names))
            ELSE Head(app_names))>>
           \o bundle_ids_keeping(apps, Tail(app_names))

\* simple_profile_generator.py lines 275-278, hideaway_bundled.py lines
\* 182-185, hideaway_nanomdm_fixed.py lines 123-126
RECURSIVE bundle_ids_of(_, _)
bundle_ids_of(apps, app_names) ==
    IF app_names = <<>> THEN <<>>
    ELSE (IF in_app_bundles(apps, Head(app_names))
          THEN <<bundle_of(apps, Head(app_names))>> ELSE <<>>)
           \o bundle_ids_of(apps, Tail(app_names))

\* supervised_profile_generator.py lines 259-264: a name that is not in the
\* table is taken to be a bundle id already
RECURSIVE bundle_ids_or_given(_, _)
bundle_ids_or_given(apps, apps_given) ==
    IF apps_given = <<>> THEN <<>>
    ELSE <<(IF in_app_bundles(apps, Head(apps_given))
            THEN bundle_of(apps, Head(apps_given))
            ELSE Head(apps_given))>>
           \o bundle_ids_or_given(apps, Tail(apps_given))

\* str.replace(' ', '_')
underscored(text) == [i \in DOMAIN text |-> IF text[i] = " " THEN "_" ELSE text[i]]

\* the focus_modes literal of create_focus_modes (lines 265-269)
simple_focus_modes ==
    {[mode_name |-> <<"S", "o", "c", "i", "a", "l", " ", "M", "e", "d", "i", "a", " ", "B", "l", "o", "c", "k">>,
      app_names |->
        <<<<"I", "n", "s", "t", "a", "g", "r", "a", "m">>, <<"F", "a", "c", "e", "b", "o", "o", "k">>, <<"T", "w", "i", "t", "t", "e", "r", "/", "X">>, <<"S", "n", "a", "p", "c", "h", "a", "t">>, <<"T", "i", "k", "T", "o", "k">>, <<"R", "e", "d", "d", "i", "t">>>>],
     [mode_name |-> <<"S", "t", "u", "d", "y", " ", "M", "o", "d", "e">>,
      app_names |->
        <<<<"I", "n", "s", "t", "a", "g", "r", "a", "m">>, <<"Y", "o", "u", "T", "u", "b", "e">>, <<"T", "i", "k", "T", "o", "k">>, <<"N", "e", "t", "f", "l", "i", "x">>, <<"D", "i", "s", "c", "o", "r", "d">>>>],
     [mode_name |-> <<"W", "o", "r", "k", " ", "F", "o", "c", "u", "s">>,
      app_names |->
        <<<<"I", "n", "s", "t", "a", "g", "r", "a", "m">>, <<"Y", "o", "u", "T", "u", "b", "e">>, <<"T", "i", "k", "T", "o", "k">>, <<"F", "a", "c", "e", "b", "o", "o", "k">>, <<"T", "w", "i", "t", "t", "e", "r", "/", "X">>, <<"R", "e", "d", "d", "i", "t">>>>]}

\* names a caller may put in a mode: two of the table, one that is not, and
\* a bundle id
FocusNames ==
    {<<"I", "n", "s", "t", "a", "g", "r", "a", "m">>, <<"Y", "o", "u", "T", "u", "b", "e">>,
     <<"M", "y", "s", "p", "a", "c", "e">>, <<"com.spotify.client">>}

study_mode == <<"S", "t", "u", "d", "y", " ", "M", "o", "d", "e">>

FocusInputs ==
    {[NoFocus EXCEPT !.generator = "simple", !.mode_name = m.mode_name,
                     !.app_names = m.app_names] : m \in simple_focus_modes}
      \cup {[NoFocus EXCEPT !.generator = g, !.mode_name = study_mode,
                            !.app_names = names] :
               g \in {"supervised", "bundled", "nanomdm"},
               names \in UNION {[1..n -> FocusNames] : n \in 0..MaxNames}}

\* simple_profile_generator.py lines 273-285
CreateFocusModes ==
    /\ focus.generator = "simple" /\ ~focus.done
    /\ LET bundle_ids == bundle_ids_of(self_available_apps, focus.app_names)
           doc == create_combo_profile(bundle_ids, focus.mode_name, uuid_next)
           filename == <<"simple_">> \o underscored(lower(focus.mode_name))
                         \o <<mobileconfig>>
       IN  /\ focus' = [focus EXCEPT !.bundle_ids = bundle_ids,
                                     !.made = (bundle_ids # <<>>),
                                     !.done = TRUE]
           /\ IF bundle_ids # <<>>
              THEN /\ profile' = doc
                   /\ origin' = "create_focus_modes"
                   /\ inputs' = Inputs(bundle_ids, focus.mode_name)
                   /\ issued' = issued \cup uuids_of(profile)
                   /\ uuid_next' = uuid_next + 3
                   /\ saved' = save_profile(doc, filename)
                   /\ UNCHANGED <<report, edits>>
              ELSE UNCHANGED <<doc_vars, gen_vars>>
    /\ UNCHANGED <<gui_vars, lookup, scan, setup, path_check>>

\* supervised_profile_generator.py lines 258-266
CreateFocusProfilesSetSupervised ==
    /\ focus.generator = "supervised" /\ ~focus.done
    /\ LET bundle_ids ==
               bundle_ids_or_given(self_available_apps, focus.app_names)
       IN  /\ focus' = [focus EXCEPT !.bundle_ids = bundle_ids,
                                     !.made = TRUE, !.done = TRUE]
           /\ Produce(create_app_blocking_profile_supervised(
                          bundle_ids, focus.mode_name, uuid_next),
                      "create_focus_profiles_set supervised",
                      Inputs(bundle_ids, focus.mode_name), 4)
    /\ UNCHANGED <<gui_vars, lookup, scan, setup, path_check>>

\* hideaway_bundled.py lines 180-192
CreateFocusProfilesSetBundled ==
    /\ focus.generator = "bundled" /\ ~focus.done
    /\ LET bundle_ids == bundle_ids_of(self_available_apps, focus.app_names)
           profile_name == focus.mode_name \o <<" ", "P", "r", "o", "f", "i", "l", "e">>
       IN  /\ focus' = [focus EXCEPT !.bundle_ids = bundle_ids,
                                     !.made = (bundle_ids # <<>>),
                                     !.done = TRUE]
           /\ IF bundle_ids # <<>>
              THEN Produce(create_app_blocking_profile_bundled(
                               bundle_ids, profile_name, uuid_next),
                           "create_focus_profiles_set bundled",
                           Inputs(bundle_ids, profile_name), 3)
              ELSE UNCHANGED <<doc_vars, gen_vars>>
    /\ UNCHANGED <<gui_vars, lookup, scan, setup, path_check>>

\* hideaway_nanomdm_fixed.py lines 121-133
CreateFocusProfilesSetNanomdm ==
    /\ focus.generator = "nanomdm" /\ ~focus.done
    /\ LET bundle_ids == bundle_ids_of(self_available_apps, focus.app_names)
           profile_name == <<"H", "i", "d", "e", "a", "w", "a", "y", " ">> \o focus.mode_name
       IN  /\ focus' = [focus EXCEPT !.bundle_ids = bundle_ids,
                                     !.made = (bundle_ids # <<>>),
                                     !.done = TRUE]
           /\ IF bundle_ids # <<>>
              THEN Produce(create_app_blocking_profile_nanomdm(
                               bundle_ids, profile_name, uuid_next),
                           "create_focus_profiles_set nanomdm",
                           Inputs(bundle_ids, profile_name), 2)
              ELSE UNCHANGED <<doc_vars, gen_vars>>
    /\ UNCHANGED <<gui_vars, lookup, scan, setup, path_check>>

FocusInit ==
    /\ focus \in FocusInputs
    /\ variant = "library"
    /\ self_available_apps = app_bundles
    /\ profile = NoDoc
    /\ origin = "none"
    /\ edits = 0
    /\ report = NoReport
    /\ saved = NoFile
    /\ uuid_next = 1
    /\ issued = {}
    /\ inputs = NoInputs
    /\ app_vars = <<>>
    /\ device_id = <<>>
    /\ is_blocking = FALSE
    /\ control_button = BLOCK_APPS
    /\ sending = NoSend
    /\ response = NoResponse
    /\ lookup = NoLookup
    /\ scan = NoScan
    /\ setup = NoSetup
    /\ path_check = NoPathCheck

FocusNext ==
    \/ CreateFocusModes
    \/ CreateFocusProfilesSetSupervised
    \/ CreateFocusProfilesSetBundled
    \/ CreateFocusProfilesSetNanomdm

FocusSpec == FocusInit /\ [][FocusNext]_vars

----------------------------------------------------------------------------
(* send_profile_to_device on its own: a call on the controller object with a
   document generate_blocking_profile returned *)

SendSelections ==
    {<<instagram>>, <<instagram, youtube>>, <<youtube>>,
     <<youtube, instagram>>}

\* a direct call of send_profile_to_device(profile) on the controller object
SendProfileToDevice ==
    /\ variant \in GuiVariants
    /\ profile # NoDoc
    /\ response' = NoResponse
    /\ sending' \in
         CASE variant = "controller" ->
                {send_profile_to_device_controller(device_id, profile, o) :
                    o \in ControllerSendOutcomes}
           [] variant = "bundled" ->
                {send_profile_to_device_bundled(device_id, profile, o) :
                    o \in BundledSendOutcomes}
           [] variant = "nanomdm" ->
                {send_profile_to_device_nanomdm(device_id, profile, o) :
                    o \in NanomdmSendOutcomes(device_id)}
    /\ UNCHANGED <<doc_vars, gen_vars, run_vars, variant, app_vars, device_id,
                   is_blocking, control_button, self_available_apps>>

SendInit ==
    /\ variant \in GuiVariants
    /\ device_id = <<>>
    /\ self_available_apps = available_apps_of(variant)
    /\ \E block_apps \in BOOLEAN, selected \in SendSelections :
         /\ profile = generate_blocking_profile(variant, selected, block_apps, 1)
         /\ origin = (IF block_apps THEN "generate_blocking_profile(True)"
                      ELSE "generate_blocking_profile(False)")
         /\ inputs = (IF block_apps THEN Inputs(selected, <<>>) ELSE NoInputs)
         /\ uuid_next = 1 + generate_draws(variant, block_apps)
    /\ app_vars = [b \in {available_apps_of(variant)[i].bundle :
                            i \in DOMAIN available_apps_of(variant)} |-> FALSE]
    /\ issued = {}
    /\ edits = 0
    /\ report = NoReport
    /\ saved = NoFile
    /\ is_blocking = FALSE
    /\ control_button = BLOCK_APPS
    /\ sending = NoSend
    /\ response = NoResponse
    /\ lookup = NoLookup
    /\ scan = NoScan
    /\ focus = NoFocus
    /\ setup = NoSetup
    /\ path_check = NoPathCheck

SendNext ==
    \/ test_connection
    \/ test_connection_nanomdm
    \/ SendProfileToDevice

SendSpec == SendInit /\ [][SendNext]_vars

----------------------------------------------------------------------------
(* The setup scripts: setup_iphone.py run_full_setup, manual_setup.py main
   and fixed_setup.py main, one run each. setup.pc is the step the run is
   at, setup.steps the steps that succeeded, setup.result how the run
   ended ("none" while it runs) *)

SetupScripts == {"setup_iphone", "manual_setup", "fixed_setup"}

StepOrder ==
    <<"start_scep_server", "get_ca_certificate", "start_nanomdm_server",
      "create_enrollment_profile">>

\* process.terminate(); it does nothing to a process that has exited
terminate(process) == IF process = "running" THEN "terminated" ELSE process

Running == setup.script \in SetupScripts /\ setup.result = "none"

\* a step reported failure: the `return False` of the run
ReturnFalse(step, scep) ==
    setup' = [setup EXCEPT !.failed = step, !.result = "False",
                           !.scep = scep]

\* setup_iphone.py lines 292-294
CheckRequirements ==
    /\ Running /\ setup.pc = "check_requirements"
    /\ \E ok \in BOOLEAN :
         IF ok THEN setup' = [setup EXCEPT !.pc = "setup_scep_server"]
         ELSE ReturnFalse("check_requirements", setup.scep)
    /\ UNCHANGED <<doc_vars, gen_vars, gui_vars, lookup, scan, focus,
                   path_check>>

\* setup_iphone.py lines 298-300
SetupScepServer ==
    /\ Running /\ setup.pc = "setup_scep_server"
    /\ \E ok \in BOOLEAN :
         IF ok THEN setup' = [setup EXCEPT !.pc = "start_scep_server"]
         ELSE ReturnFalse("setup_scep_server", setup.scep)
    /\ UNCHANGED <<doc_vars, gen_vars, gui_vars, lookup, scan, focus,
                   path_check>>

\* setup_iphone.py lines 304-307, manual_setup.py lines 171-174,
\* fixed_setup.py lines 237-240
StartScepServer ==
    /\ Running /\ setup.pc = "start_scep_server"
    /\ \E started \in BOOLEAN :
         IF started
         THEN setup' = [setup EXCEPT
                  !.scep = "running",
                  !.steps = Append(@, "start_scep_server"),
                  !.pc = IF setup.script = "setup_iphone"
                         THEN "sleep_after_scep" ELSE "get_ca_certificate"]
         ELSE ReturnFalse("start_scep_server", setup.scep)
    /\ UNCHANGED <<doc_vars, gen_vars, gui_vars, lookup, scan, focus,
                   path_check>>

\* the step, going on to the next one when the fetch fails
GetCaCertificateGoingOn ==
    /\ Running /\ setup.pc = "get_ca_certificate"
    /\ \E fetched \in {setup.scep = "running", FALSE} :
         IF fetched
         THEN setup' = [setup EXCEPT
                  !.steps = Append(@, "get_ca_certificate"),
                  !.pc = "start_nanomdm_server"]
         ELSE setup' = [setup EXCEPT
                  !.failed = "get_ca_certificate",
                  !.pc = "start_nanomdm_server"]
    /\ UNCHANGED <<doc_vars, gen_vars, gui_vars, lookup, scan, focus,
                   path_check>>

\* setup_iphone.py lines 314-317, manual_setup.py lines 177-180,
\* fixed_setup.py lines 243-246; curl gets the certificate only from a
\* SCEP server that is running
GetCaCertificate ==
    /\ Running /\ setup.pc = "get_ca_certificate"
    /\ \E fetched \in {setup.scep = "running", FALSE} :
         IF fetched
         THEN setup' = [setup EXCEPT
                  !.steps = Append(@, "get_ca_certificate"),
                  !.pc = "start_nanomdm_server"]
         ELSE ReturnFalse("get_ca_certificate", terminate(setup.scep))
    /\ UNCHANGED <<doc_vars, gen_vars, gui_vars, lookup, scan, focus,
                   path_check>>

\* setup_iphone.py lines 322-325, manual_setup.py lines 183-186,
\* fixed_setup.py lines 249-252
StartNanomdmServer ==
    /\ Running /\ setup.pc = "start_nanomdm_server"
    /\ \E started \in BOOLEAN :
         IF started
         THEN setup' = [setup EXCEPT
                  !.nanomdm = "running",
                  !.steps = Append(@, "start_nanomdm_server"),
                  !.pc = "sleep_after_nanomdm"]
         ELSE ReturnFalse("start_nanomdm_server", terminate(setup.scep))
    /\ UNCHANGED <<doc_vars, gen_vars, gui_vars, lookup, scan, focus,
                   path_check>>

\* time.sleep: setup_iphone.py lines 310-311 and 328, manual_setup.py line
\* 189, fixed_setup.py line 255
Sleep ==
    /\ Running /\ setup.pc \in {"sleep_after_scep", "sleep_after_nanomdm"}
    /\ setup' = [setup EXCEPT
                   !.pc = IF setup.pc = "sleep_after_scep"
                          THEN "get_ca_certificate"
                          ELSE "create_enrollment_profile"]
    /\ UNCHANGED <<doc_vars, gen_vars, gui_vars, lookup, scan, focus,
                   path_check>>

\* the enrollment document each script builds
enrollment_profile_of(script, mac_ip, u) ==
    CASE script = "setup_iphone" ->
           create_enrollment_profile_setup_iphone(
               <<"http://127.0.0.1:", "9000">>, <<"http://127.0.0.1:", "8080">>,
               placeholder_topic, u)
      [] script = "manual_setup" -> create_enrollment_profile_manual_setup(u)
      [] script = "fixed_setup" ->
           create_enrollment_profile_fixed_setup(mac_ip, u)

FocusController_Enrollment == <<"FocusController_Enrollment", mobileconfig>>

\* setup_iphone.py lines 333-338 (with lines 255-258), manual_setup.py line
\* 192 (with lines 160-162), fixed_setup.py line 258 (with lines 202-204):
\* the document is built, then open() and plistlib.dump write it or raise,
\* and nothing around the call catches what they raise
CreateEnrollmentProfile ==
    /\ Running /\ setup.pc = "create_enrollment_profile"
    /\ CanDraw(3)
    /\ LET doc == enrollment_profile_of(setup.script, setup.mac_ip, uuid_next)
       IN  /\ profile' = doc
           /\ origin' = "create_enrollment_profile"
           /\ inputs' = NoInputs
           /\ issued' = issued \cup uuids_of(profile)
           /\ uuid_next' = uuid_next + 3
           /\ report' = NoReport
           /\ edits' = edits
           /\ \E written \in BOOLEAN :
                IF written
                THEN /\ saved' = save_profile(doc, FocusController_Enrollment)
                     /\ setup' = [setup EXCEPT
                            !.steps = Append(@, "create_enrollment_profile"),
                            !.pc = "serving"]
                ELSE /\ saved' = NoFile
                     /\ setup' = [setup EXCEPT !.result = "raised"]
    /\ UNCHANGED <<gui_vars, lookup, scan, focus, path_check>>

\* Ctrl+C: inside the final loop it is caught and both servers are
\* terminated (setup_iphone.py lines 356-367, manual_setup.py lines
\* 211-222, fixed_setup.py lines 280-291); anywhere else no handler is in
\* scope (the steps catch Exception only) and it ends the run
KeyboardInterrupt ==
    /\ Running
    /\ IF setup.pc = "serving"
       THEN setup' = [setup EXCEPT !.scep = terminate(@),
                                   !.nanomdm = terminate(@),
                                   !.result = "True"]
       ELSE setup' = [setup EXCEPT !.result = "interrupted"]
    /\ UNCHANGED <<doc_vars, gen_vars, gui_vars, lookup, scan, focus,
                   path_check>>

\* a server process exits on its own while the run goes on
ServerExits ==
    /\ Running
    /\ \/ /\ setup.scep = "running"
          /\ setup' = [setup EXCEPT !.scep = "exited"]
       \/ /\ setup.nanomdm = "running"
          /\ setup' = [setup EXCEPT !.nanomdm = "exited"]
    /\ UNCHANGED <<doc_vars, gen_vars, gui_vars, lookup, scan, focus,
                   path_check>>

SetupInit ==
    /\ \E script \in SetupScripts :
       \E mac_ip \in (IF script = "fixed_setup" THEN MacIps ELSE {<<>>}) :
         setup = [NoSetup EXCEPT
                    !.script = script,
                    !.mac_ip = mac_ip,
                    !.pc = IF script = "setup_iphone"
                           THEN "check_requirements"
                           ELSE "start_scep_server"]
    /\ variant = "library"
    /\ self_available_apps = app_bundles
    /\ profile = NoDoc
    /\ origin = "none"
    /\ edits = 0
    /\ report = NoReport
    /\ saved = NoFile
    /\ uuid_next = 1
    /\ issued = {}
    /\ inputs = NoInputs
    /\ app_vars = <<>>
    /\ device_id = <<>>
    /\ is_blocking = FALSE
    /\ control_button = BLOCK_APPS
    /\ sending = NoSend
    /\ response = NoResponse
    /\ lookup = NoLookup
    /\ scan = NoScan
    /\ focus = NoFocus
    /\ path_check = NoPathCheck

SetupNext ==
    \/ CheckRequirements
    \/ SetupScepServer
    \/ StartScepServer
    \/ GetCaCertificate
    \/ StartNanomdmServer
    \/ Sleep
    \/ CreateEnrollmentProfile
    \/ KeyboardInterrupt
    \/ ServerExits

SetupSpec == SetupInit /\ [][SetupNext]_vars

----------------------------------------------------------------------------
(* Claims about validate_profile, checked under ValidatorSpec *)

Validated == report # NoReport

\* C1: for every parseable document validate_profile returns False if and
\* only if at least one issue was counted during the pass; warnings and
\* summaries never change the verdict.
C1_FalseIffIssueCounted ==
    Validated =>
        ((report.result = "False") <=> (report.issues_found >= 1))

\* a document that validates clean once PayloadVersion = 1 is put back
WellFormedButVersionAbsent(p) ==
    /\ ~Has(p, "PayloadVersion")
    /\ validate_profile(DictSet(p, "PayloadVersion", PyInt(1))).result = "True"

\* C2: a document that is well-formed except that the top-level
\* PayloadVersion is absent is invalid with exactly one issue recorded.
C2_MissingVersionIsOneIssue ==
    (Validated /\ WellFormedButVersionAbsent(profile)) =>
        (report.result = "False" /\ report.issues_found = 1)

\* the issues one payload contributes (lines 84-103)
payload_issues(payload) ==
    IF payload.kind # "dict" THEN 1 ELSE payload_missing(payload)

RECURSIVE SumPayloadIssues(_)
SumPayloadIssues(payload_content) ==
    IF payload_content = <<>> THEN 0
    ELSE payload_issues(Head(payload_content))
           + SumPayloadIssues(Tail(payload_content))

WrongShapeContent(p) ==
    Get(p, "PayloadContent", PyList(<<>>)).kind # "list"

\* C5: validate_profile never short-circuits: it reports a count equal to
\* the absent root fields, plus one for a wrong PayloadType, plus one for a
\* wrong PayloadVersion, plus the issues of every payload (the one issue of
\* a wrong-shape PayloadContent standing in for the payload checks it skips).
C5_AllIssuesCollected ==
    Validated =>
        /\ report.result \in {"True", "False"}
        /\ report.issues_found =
              root_missing(profile) + root_type_issue(profile)
                + root_version_issue(profile)
                + (IF WrongShapeContent(profile) THEN 1
                   ELSE SumPayloadIssues(payloads_of(profile)))

\* C6: for every document whose PayloadContent is not a sequence,
\* validate_profile records an invalid-shape issue, performs no payload-level
\* check and returns an invalid verdict instead of raising.
C6_WrongShapeReturnsInvalid ==
    (Validated /\ WrongShapeContent(profile)) =>
        /\ report.result = "False"
        /\ report.issues_found >= 1
        /\ report.payloads_checked = 0

\* the step changes nothing but one payload's PayloadType value or its
\* blacklistedAppBundleIDs value
OnlyTypeOrBlacklistChanged ==
    \E i \in DOMAIN payloads_of(profile) :
        /\ payloads_of(profile)[i].kind = "dict"
        /\ \E f \in {"PayloadType", "blacklistedAppBundleIDs"} :
              /\ Has(payloads_of(profile)[i], f)
              /\ \E val \in PayloadTypeSamples \cup BlacklistSamples :
                    profile' = with_payload(profile, i,
                                  DictSet(payloads_of(profile)[i], f, val))

\* C7: the value of a payload's PayloadType and the contents of its
\* blacklistedAppBundleIDs never affect the verdict: documents that differ
\* only in those values get the same verdict, and validation completes for
\* both.
C7_TypeAndBlacklistDoNotAffectVerdict ==
    [][OnlyTypeOrBlacklistChanged =>
          /\ validate_profile(profile').result \in {"True", "False"}
          /\ validate_profile(profile').result
                = validate_profile(profile).result]_vars

----------------------------------------------------------------------------
(* Claims about the documents the builders produce, checked under Spec *)

AppBlockingOrigins ==
    {"create_simple_app_blocking_profile",
     "create_app_blocking_profile_supervised",
     "create_app_blocking_profile_bundled",
     "create_app_blocking_profile_nanomdm",
     "generate_blocking_profile(True)", "toggle_blocking block"}

\* C3: for every non-empty list of bundle identifiers and every profile
\* name, the document an app-blocking builder returns
\* (create_simple_app_blocking_profile, generate_blocking_profile(True),
\* create_app_blocking_profile) is reported valid by validate_profile.
C3_AppBlockingDocumentsAreValid ==
    (/\ Validated
     /\ origin \in AppBlockingOrigins
     /\ inputs.blocked_apps # <<>>)
        => (report.result = "True" /\ report.issues_found = 0)

C3_Witness ==
    /\ Validated
    /\ origin = "create_app_blocking_profile_supervised"
    /\ Len(inputs.blocked_apps) > 3
    /\ report.result = "True"
    /\ report.payloads_checked = 3

RemovalOrigins ==
    {"create_removal_profile", "create_unblock_profile",
     "generate_blocking_profile(False)", "toggle_blocking unblock"}

EmptyContent(p) == Get(p, "PayloadContent", PyNone) = PyList(<<>>)

\* C4: every removal or unblock document the repository constructs
\* (create_removal_profile, create_unblock_profile,
\* generate_blocking_profile(False), the unblock branch of toggle_blocking)
\* has PayloadContent == [] and is reported valid; an empty PayloadContent
\* is never counted as an issue.
C4_RemovalDocumentsAreValid ==
    /\ (origin \in RemovalOrigins) => EmptyContent(profile)
    /\ (Validated /\ EmptyContent(profile))
          => (report.result = "True" /\ report.issues_found = 0)

C4_Witness ==
    /\ Validated
    /\ variant = "controller"
    /\ origin = "toggle_blocking unblock"
    /\ EmptyContent(profile)
    /\ report.result = "True"

HasRequired(d) ==
    /\ d.kind = "dict"
    /\ \A f \in {"PayloadIdentifier", "PayloadDisplayName", "PayloadType",
                  "PayloadUUID", "PayloadVersion"} : Has(d, f)
    /\ d.v["PayloadVersion"] = PyInt(1)

\* C8: every document a builder produces, and every payload inside it,
\* carries PayloadIdentifier, PayloadDisplayName, PayloadType, PayloadUUID
\* and PayloadVersion, with document type Configuration and every version
\* equal to 1; enrollment builders included.
C8_RequiredFieldsEverywhere ==
    (profile # NoDoc) =>
        /\ HasRequired(profile)
        /\ profile.v["PayloadType"] = Configuration
        /\ \A i \in DOMAIN payloads_of(profile) :
              HasRequired(payloads_of(profile)[i])

\* C9: with uuid4() drawing fresh tokens, after any sequence of builder
\* calls and block/unblock actions in one process the document UUID and
\* the payload UUIDs of a document are pairwise distinct, and no UUID of
\* a document appears in a document produced before it.
C9_UuidsNeverRepeat ==
    (profile # NoDoc) =>
        /\ Cardinality(uuids_of(profile)) = 1 + Len(payloads_of(profile))
        /\ uuids_of(profile) \cap issued = {}

C9_Witness ==
    /\ origin = "toggle_blocking block"
    /\ Cardinality(issued) >= 2
    /\ Cardinality(uuids_of(profile)) >= 2

EnrollmentOrigins ==
    {"create_enrollment_profile_setup_iphone",
     "create_enrollment_profile_fixed_setup",
     "create_enrollment_profile_manual_setup",
     "create_enrollment_profile_bundled",
     "create_enrollment_profile_nanomdm"}

IsType(payload, type) ==
    /\ payload.kind = "dict"
    /\ Has(payload, "PayloadType")
    /\ payload.v["PayloadType"] = type

\* C10: in every enrollment document of every create_enrollment_profile
\* variant, the MDM payload's IdentityCertificateUUID equals the
\* PayloadUUID of a com.apple.security.scep payload of the same document.
C10_IdentityCertificateResolves ==
    (origin \in EnrollmentOrigins) =>
        LET payloads == payloads_of(profile)
        IN  /\ \E i \in DOMAIN payloads : IsType(payloads[i], mdm)
            /\ \A i \in DOMAIN payloads :
                  IsType(payloads[i], mdm) =>
                    /\ Has(payloads[i], "IdentityCertificateUUID")
                    /\ \E j \in DOMAIN payloads :
                          /\ IsType(payloads[j], security_scep)
                          /\ payloads[j].v["PayloadUUID"] =
                               payloads[i].v["IdentityCertificateUUID"]

C10_Witness ==
    /\ origin = "create_enrollment_profile_fixed_setup"
    /\ issued # {}
    /\ Len(payloads_of(profile)) = 2

PayloadIdentifierOf(payload) == payload.v["PayloadIdentifier"].v

\* C12: in every document produced by any builder, for every input list and
\* profile name, the PayloadIdentifier values of the payloads in
\* PayloadContent are pairwise distinct.
C12_PayloadIdentifiersDistinct ==
    (profile # NoDoc) =>
        \A i, j \in DOMAIN payloads_of(profile) :
            (i # j) => PayloadIdentifierOf(payloads_of(profile)[i])
                          # PayloadIdentifierOf(payloads_of(profile)[j])

C12_Witness ==
    /\ origin = "create_combo_profile"
    /\ Len(payloads_of(profile)) = 2
    /\ PayloadIdentifierOf(payloads_of(profile)[2])
          = <<"com.focuscontroller.webfilter">>

\* the builders that take a bundle list and a profile name
NamedAppBlockingOrigins ==
    {"create_simple_app_blocking_profile", "create_combo_profile",
     "create_app_blocking_profile_supervised",
     "create_app_blocking_profile_bundled",
     "create_app_blocking_profile_nanomdm"}

\* needle occurs in text
Contains(text, needle) ==
    \E k \in 0..(Len(text) - Len(needle)) :
        SubSeq(text, k + 1, k + Len(needle)) = needle

\* N lower-cased with its spaces removed
Normalized(profile_name) ==
    SelectSeq([i \in DOMAIN profile_name |-> LowerAtom(profile_name[i])],
              LAMBDA c : c # " ")

AccessPayloads(p) ==
    {i \in DOMAIN payloads_of(p) : IsType(payloads_of(p)[i], applicationaccess)}

\* C13: for every non-empty bundle list B and profile name N, each
\* app-blocking builder produces a document with exactly one
\* com.apple.applicationaccess payload whose blacklistedAppBundleIDs equals B
\* in order, and whose document PayloadIdentifier contains N lower-cased with
\* spaces removed ("studymode" for "Study Mode").
C13_OneAccessPayloadNamedAfterProfile ==
    (origin \in NamedAppBlockingOrigins /\ inputs.blocked_apps # <<>>) =>
        /\ Cardinality(AccessPayloads(profile)) = 1
        /\ \A i \in AccessPayloads(profile) :
              payloads_of(profile)[i].v["blacklistedAppBundleIDs"]
                 = PyList([k \in DOMAIN inputs.blocked_apps |->
                              PyStr(inputs.blocked_apps[k])])
        /\ Contains(profile.v["PayloadIdentifier"].v,
                    Normalized(inputs.profile_name))

----------------------------------------------------------------------------
(* Claims about validate_all_profiles, checked under DirectorySpec *)

Scanned == scan.pc # "idle"

\* C14: in validate_all_profiles the verdict recorded for each discovered
\* file equals validate_profile applied to that file alone, whatever other
\* files are present and in whatever order they were discovered, and the
\* final summary counts the files whose verdict is valid out of the files
\* discovered.
C14_EachFileJudgedAlone ==
    Scanned =>
        /\ Len(scan.results) = Len(scan.directory)
        /\ \A i \in DOMAIN scan.directory :
              /\ i \in DOMAIN scan.results
              /\ scan.results[i].name = scan.directory[i].name
              /\ validate_profile(scan.directory[i].doc).result
                    \in {"True", "False"}
              /\ scan.results[i].verdict
                    = (validate_profile(scan.directory[i].doc).result = "True")
        /\ scan.valid_count =
              Cardinality({i \in DOMAIN scan.directory :
                  validate_profile(scan.directory[i].doc).result = "True"})
        /\ scan.total_count = Len(scan.directory)

----------------------------------------------------------------------------
(* Claims about the reverse lookup, checked under LookupSpec *)

Listed(apps, bundle_id) == \E i \in DOMAIN apps : apps[i].bundle = bundle_id

FirstThree(bundle_ids) ==
    [k \in 1..(IF Len(bundle_ids) > 3 THEN 3 ELSE Len(bundle_ids)) |->
        bundle_ids[k]]

\* C15: the app names collected for the description are, for each of the
\* first three selected bundle ids in order, the name of the earliest
\* catalog entry carrying that bundle id, also when several names carry it;
\* a bundle id no entry carries contributes no name.
C15_FirstNameInCatalogOrder ==
    lookup.done =>
        LET apps == self_available_apps
            mapped == SelectSeq(FirstThree(lookup.selected_bundles),
                                LAMBDA b : Listed(apps, b))
        IN  /\ Len(lookup.app_names) = Len(mapped)
            /\ \A k \in DOMAIN mapped :
                  \E i \in DOMAIN apps :
                     /\ apps[i].bundle = mapped[k]
                     /\ apps[i].name = lookup.app_names[k]
                     /\ \A j \in 1..(i - 1) : apps[j].bundle # mapped[k]

C15_Witness ==
    /\ lookup.done
    /\ self_available_apps = duplicated_apps
    /\ lookup.selected_bundles =
          <<<<"com.google.ios.youtube">>, <<"com.example.unlisted">>,
            <<"com.burbn.instagram">>, <<"com.google.ios.youtube">>>>
    /\ lookup.app_names =
          <<<<"Y", "o", "u", "T", "u", "b", "e">>,
            <<"I", "n", "s", "t", "a", "g", "r", "a", "m">>>>

----------------------------------------------------------------------------
(* Claims about the catalog tables, checked under Spec *)

\* C16: no operation adds, removes or changes an entry of the app-name to
\* bundle-id table: after any sequence of builder calls, saves, validations
\* and GUI actions it equals the table the program was constructed with.
C16_CatalogNeverMutated ==
    self_available_apps =
        (IF variant = "controller" THEN available_apps ELSE app_bundles)

C16_Witness ==
    /\ variant = "bundled"
    /\ is_blocking
    /\ origin = "toggle_blocking block"
    /\ \E b \in DOMAIN app_vars : ~app_vars[b]
    /\ self_available_apps = app_bundles

----------------------------------------------------------------------------
(* Claims about the on-disk form, checked under Spec *)

\* C17: for every document a builder produced, writing it with save_profile
\* and parsing the file back as validate_profile does yields a value equal
\* to the document, the payloads in their original order.
C17_SaveThenLoadIsLossless ==
    saved # NoFile => plistlib_load(saved) = profile

----------------------------------------------------------------------------
(* Claims about SimpleProfileGenerator, checked under Spec *)

PositionsOfType(p, payload_type) ==
    {i \in DOMAIN payloads_of(p) : IsType(payloads_of(p)[i], payload_type)}

\* some blocked id has a mapping entry with at least one domain
AnySiteMapped(blocked_apps) ==
    \E i \in DOMAIN blocked_apps, m \in DOMAIN website_mapping :
        /\ website_mapping[m].bundle = blocked_apps[i]
        /\ website_mapping[m].sites # <<>>

\* C18: create_simple_app_blocking_profile and create_combo_profile include
\* the application-access payload iff blocked_apps is non-empty;
\* create_combo_profile includes the web-content-filter payload iff the
\* website list derived from blocked_apps is non-empty and places it after
\* the application-access payload; nothing else is included, so an empty
\* blocked_apps gives an empty PayloadContent.
C18_PayloadsOnlyForNonEmptyLists ==
    origin \in {"create_simple_app_blocking_profile", "create_combo_profile"}
      => LET apps == PositionsOfType(profile, applicationaccess)
             webs == PositionsOfType(profile, webcontent_filter)
             B == inputs.blocked_apps
         IN  /\ Cardinality(apps) = (IF B # <<>> THEN 1 ELSE 0)
             /\ Cardinality(webs) =
                   (IF origin = "create_combo_profile" /\ AnySiteMapped(B)
                    THEN 1 ELSE 0)
             /\ \A a \in apps, w \in webs : a < w
             /\ Len(payloads_of(profile))
                   = Cardinality(apps) + Cardinality(webs)
             /\ (B = <<>> => payloads_of(profile) = <<>>)

C18_Witness ==
    /\ origin = "create_combo_profile"
    /\ inputs.blocked_apps = << <<"org.example.unlisted">> >>
    /\ Len(payloads_of(profile)) = 1
    /\ PositionsOfType(profile, applicationaccess) = {1}

----------------------------------------------------------------------------
(* Claims about the payload loop of validate_profile, checked under
   ValidatorSpec *)

FivePayloadFields ==
    {"PayloadDisplayName", "PayloadIdentifier", "PayloadType", "PayloadUUID",
     "PayloadVersion"}

\* what the payload at hand is to contribute: one issue when it is not a
\* dictionary, else one per absent field
ExpectedPayloadIssues(payload) ==
    IF payload.kind # "dict" THEN 1
    ELSE Cardinality({f \in FivePayloadFields : f \notin DOMAIN payload.v})

RECURSIVE ExpectedIssuesUpTo(_, _)
ExpectedIssuesUpTo(payload_content, n) ==
    IF n = 0 THEN 0
    ELSE ExpectedIssuesUpTo(payload_content, n - 1)
           + ExpectedPayloadIssues(payload_content[n])

ListContent(p) == Get(p, "PayloadContent", PyList(<<>>)).kind = "list"

\* C19: for each payload of PayloadContent validate_profile counts exactly
\* one issue per absent field among the five required payload fields, and
\* exactly one issue for a payload that is not a dictionary, whose field
\* checks are skipped; in both cases every remaining payload is still
\* checked.
C19_EveryPayloadCounted ==
    (Validated /\ ListContent(profile)) =>
        /\ report.payloads_checked = Len(payloads_of(profile))
        /\ report.issues_found =
              root_missing(profile) + root_type_issue(profile)
                + root_version_issue(profile)
                + ExpectedIssuesUpTo(payloads_of(profile),
                                     Len(payloads_of(profile)))

----------------------------------------------------------------------------
(* Claims about the derived website list, checked under Spec *)

WebsiteOrigins ==
    {"create_combo_profile", "create_app_blocking_profile_supervised",
     "create_app_blocking_profile_bundled"}

MappingOf(o) ==
    IF o = "create_app_blocking_profile_bundled"
    THEN website_mapping_bundled ELSE website_mapping

Mapped(mapping, app_id) ==
    \E m \in DOMAIN mapping : mapping[m].bundle = app_id

\* the domain lists of the mapped ids among the first n, one after another
RECURSIVE ExpectedSites(_, _, _)
ExpectedSites(mapping, ids, n) ==
    IF n = 0 THEN <<>>
    ELSE ExpectedSites(mapping, ids, n - 1)
           \o (IF Mapped(mapping, ids[n])
               THEN mapping[CHOOSE m \in DOMAIN mapping :
                               mapping[m].bundle = ids[n]].sites
               ELSE <<>>)

DenyListPositions(p) ==
    {i \in DOMAIN payloads_of(p) : Has(payloads_of(p)[i], "DenyListURLs")}

\* C20: the website list derived from the blocked bundle ids is the
\* concatenation, in input order, of the domain lists of exactly the ids
\* that are keys of the website mapping; an id without an entry contributes
\* nothing and the list is empty when no id is mapped.
C20_WebsitesConcatenatedInInputOrder ==
    origin \in WebsiteOrigins =>
        LET B == inputs.blocked_apps
            mapping == MappingOf(origin)
            expected == ExpectedSites(mapping, B, Len(B))
            at == DenyListPositions(profile)
        IN  /\ \A i \in at :
                  payloads_of(profile)[i].v["DenyListURLs"]
                     = PyList([k \in DOMAIN expected |-> PyStr(expected[k])])
            /\ ((\A k \in DOMAIN B : ~Mapped(mapping, B[k]))
                  => \A i \in at :
                        payloads_of(profile)[i].v["DenyListURLs"]
                           = PyList(<<>>))
            /\ IF origin = "create_combo_profile"
               THEN (at # {}) <=> (expected # <<>>)
               ELSE at # {}

C20_Witness ==
    /\ origin = "create_app_blocking_profile_supervised"
    /\ Len(inputs.blocked_apps) = 4
    /\ ~Mapped(website_mapping, inputs.blocked_apps[4])
    /\ Mapped(website_mapping, inputs.blocked_apps[1])
    /\ \E i \in DenyListPositions(profile) :
          Len(payloads_of(profile)[i].v["DenyListURLs"].v) > 2

----------------------------------------------------------------------------
(* Claims about the focus modes, checked under FocusSpec *)

KnownName(app_name) ==
    \E i \in DOMAIN self_available_apps :
        self_available_apps[i].name = app_name

----------------------------------------------------------------------------
(* Claims about the GUI handlers, checked under Spec *)

Delivered == {"returned", "saved_to_desktop", "sent_via_nanomdm"}

\* C22: whenever toggle_blocking changes is_blocking from True to False, a
\* removal document (empty PayloadContent) has been handed to
\* send_profile_to_device within that same toggle action and was delivered
\* or saved.
C22_UnblockSendsRemovalProfile ==
    [][(is_blocking /\ ~is_blocking') =>
          /\ sending'.called
          /\ sending'.removal
          /\ sending'.status \in Delivered]_vars

\* C23: unblocking is always possible: in every reachable state in which
\* is_blocking is True and a device is connected, pressing the control
\* button sets is_blocking to False, whatever the checkboxes show, also
\* after clear_all has deselected every app.
C23_UnblockAlwaysPossible ==
    (is_blocking /\ device_id # <<>> /\ CanDraw(2)) =>
        ENABLED (/\ \/ toggle_blocking_controller
                    \/ toggle_blocking_bundled
                    \/ toggle_blocking_nanomdm
                 /\ ~is_blocking')

\* C24: in every toggle_blocking is_blocking and the text of the control
\* button change only in a step whose profile generation and
\* send_profile_to_device call both completed without raising; any other
\* step keeps both, and the button reads 'UNBLOCK APPS' exactly when
\* is_blocking is True.
C24_StateChangesOnlyAfterSend ==
    [][/\ (is_blocking' # is_blocking \/ control_button' # control_button) =>
            /\ sending'.called
            /\ sending'.status \in Delivered
       /\ (control_button' = UNBLOCK_APPS) <=> is_blocking']_vars

\* C25: in hideaway_controller.py and hideaway_bundled.py device_id is
\* assigned only by a test_connection whose push answered 200; a blank
\* entry, another status and an exception leave it unchanged, so a
\* send_profile_to_device call made before any test succeeded raises at
\* its device check and nothing is sent.
C25_DeviceOnlyFromSuccessfulTest ==
    [][(variant \in {"controller", "bundled"}) =>
         ((device_id' # device_id =>
               (response' = "200" /\ device_id' # <<>>))
          /\ ((sending'.called /\ device_id = <<>>) =>
               (sending'.status = "raised"
                /\ sending'.path = "No device connected")))]_vars

C25_Witness ==
    /\ variant = "bundled"
    /\ device_id = <<"device-1">>
    /\ sending.called
    /\ sending.status = "saved_to_desktop"

\* C26: send_profile_to_device of hideaway_nanomdm_fixed.py called with a
\* non-empty device_id: for 'demo_device' neither cmdr.py nor the enqueue
\* request is invoked; the status is 'sent_via_nanomdm' only when the
\* command generation exited 0 and the enqueue answered 200; and every
\* failure on the nanomdm path is absorbed, the call returning
\* 'saved_to_desktop'.
C26_NanomdmSendStatus ==
    (variant = "nanomdm" /\ sending.called /\ device_id # <<>>) =>
        /\ device_id = demo_device => (~sending.cmdr /\ ~sending.enqueue)
        /\ sending.status = "sent_via_nanomdm" =>
              /\ sending.path = "enqueued"
              /\ sending.cmdr
              /\ sending.enqueue
        /\ sending.path \in {"tools not found", "command generation failed",
                             "subprocess exception", "enqueue refused",
                             "request exception"} =>
              sending.status = "saved_to_desktop"

C26_Witness ==
    /\ variant = "nanomdm"
    /\ device_id = <<"device-1">>
    /\ sending.called
    /\ sending.path = "request exception"
    /\ sending.status = "saved_to_desktop"

StepIndex(step) == CHOOSE i \in DOMAIN StepOrder : StepOrder[i] = step

C28_NoServerOutlivesTheRun ==
    (setup.script \in SetupScripts /\ setup.result # "none") =>
        /\ setup.scep # "running"
        /\ setup.nanomdm # "running"

\* C29: validate_profile returns False without raising when nothing exists
\* at the given path or when the file there cannot be read as a property
\* list, and makes no field check in those cases.
C29_NoDocumentNoFieldCheck ==
    (path_check.pc # "idle"
        /\ path_check.entry \in {"missing", "truncated file", "directory",
                                 "unreadable file"}) =>
        /\ path_check.verdict = "False"
        /\ ~path_check.checked
        /\ report = NoReport

C29_Witness ==
    /\ path_check.entry = "truncated file"
    /\ path_check.pc = "Failed to parse plist"
    /\ path_check.verdict = "False"

====
